---- MODULE Spec2Model ----
(***************************************************************************)
(* A model of the ccc STABS/mdebug symbol table reader:                    *)
(*   - classify_range          (src/src/ccc/stabs_to_ast.cpp)              *)
(*   - stabs_type_to_ast, field_to_ast, detect_bitfield,                   *)
(*     member_functions_to_ast (src/src/ccc/stabs_to_ast.cpp)              *)
(*   - parse_symbol_table      (src/ccc/mdebug.cpp)                        *)
(*   - get_string, merge_paths, normalise_path (src/ccc/util.cpp)          *)
(*   - print_types             (src/stdump.cpp)                            *)
(* Strings are sequences of one-character strings.  64-bit integers are    *)
(* sign/magnitude records whose magnitude is four 16-bit limbs, least      *)
(* significant first, so that the arithmetic of strtoll keeps its width.   *)
(***************************************************************************)
EXTENDS Integers, Sequences, FiniteSets, TLC

VARIABLES
    range_pc,        \* classify_range driver: "input" | "done"
    range_low,       \* StabsRangeType::low
    range_high,      \* StabsRangeType::high
    range_result,    \* Result<ast::BuiltInClass>
    input,           \* the description of the STABS types the lowering is given
    stabs_types,     \* StabsToAstState::stabs_types and the types it indexes
    parser_flags,    \* StabsToAstState::parser_flags
    demangler,       \* StabsToAstState::demangler: "absent" | "opname"
    stack,           \* the call stack of the lowering, innermost frame last
    ret,             \* the Result the last call returned, None while a call runs
    status,          \* "idle" | "running" | "done" | "aborted" | "segfault"
    guard_fired,     \* the call depth check of stabs_type_to_ast has fired
    image,           \* Module::image and the records of its mdebug section
    sym_pc,          \* parse_symbol_table: "header" | "files" | "symbols" |
                     \*   "returned" | "exited" | "segfault"
    sym_error,       \* the message the process exited with
    sym_i,           \* the index i of the loop over file descriptors
    sym_j,           \* the index j of the loop over local symbols
    sym_fd,          \* fd, the SymFileDescriptor being filled
    symbol_table,    \* symbol_table.files
    sym_reads,       \* the subjects of the calls of get_packed, in order
    types_files,     \* print_types: symbol_table.files, the symbols of each file
    types_pc,        \* print_types: "file" | "symbol" | "returned"
    types_i,         \* the position of fd in the loop over the files
    types_j,         \* the position of sym in the loop over fd.symbols
    prefix,          \* the std::string prefix of print_types
    parsed,          \* the arguments of the calls of parse_stabs_symbol, in order
    path_pc,         \* merge_paths driver: "input" | "merged" | "done"
    path_base,       \* the argument base of merge_paths
    path_path,       \* the argument path of merge_paths
    path_merged,     \* the std::string merge_paths returned
    path_again       \* normalise_path of path_merged

range_vars == <<range_pc, range_low, range_high, range_result>>

lowering_vars == <<input, stabs_types, parser_flags, demangler, stack, ret, status, guard_fired>>

symtab_vars ==
    <<image, sym_pc, sym_error, sym_i, sym_j, sym_fd, symbol_table, sym_reads>>

types_vars == <<types_files, types_pc, types_i, types_j, prefix, parsed>>

path_vars == <<path_pc, path_base, path_path, path_merged, path_again>>

vars == <<range_vars, lowering_vars, symtab_vars, types_vars, path_vars>>

None == "none"

\* std::optional<T>
NullOpt == [has_value |-> FALSE]

Some(v) == [has_value |-> TRUE, value |-> v]

\* A null std::unique_ptr<ast::Node>.
NullNode == [descriptor |-> "NULL"]

\* No Result: the call that would return one is still running.
NoResult == [pending |-> TRUE]

(***************************************************************************)
(* The values of the variables of a part of the program that is not run.   *)
(***************************************************************************)
TypesIdle ==
    /\ types_files = <<>>
    /\ types_pc = "idle"
    /\ types_i = 0
    /\ types_j = 0
    /\ prefix = <<>>
    /\ parsed = <<>>

PathIdle ==
    /\ path_pc = "idle"
    /\ path_base = <<>>
    /\ path_path = <<>>
    /\ path_merged = <<>>
    /\ path_again = <<>>

SymtabIdle ==
    /\ image = <<>>
    /\ sym_pc = "idle"
    /\ sym_error = ""
    /\ sym_i = 0
    /\ sym_j = 0
    /\ sym_fd = NullOpt
    /\ symbol_table = <<>>
    /\ sym_reads = <<>>

RangeIdle ==
    /\ range_pc = "idle"
    /\ range_low = <<>>
    /\ range_high = <<>>
    /\ range_result = None

LoweringIdle ==
    /\ input = None
    /\ stabs_types = <<>>
    /\ parser_flags = {}
    /\ demangler = "absent"
    /\ stack = <<>>
    /\ ret = NoResult
    /\ status = "idle"
    /\ guard_fired = FALSE

(***************************************************************************)
(* Result<T>: a value or an error message.                                 *)
(***************************************************************************)
Success(v) == [ok |-> TRUE, value |-> v]

Failure(msg) == [ok |-> FALSE, error |-> msg]

(***************************************************************************)
(* Strings.                                                                *)
(***************************************************************************)
RECURSIVE Rep(_, _)
Rep(c, n) == IF n = 0 THEN <<>> ELSE <<c>> \o Rep(c, n - 1)

\* c_str()[i] for a 0-based index i: the terminating NUL is read at the end.
CharAt(s, i) == IF i < Len(s) THEN s[i + 1] ELSE "NUL"

(***************************************************************************)
(* s64 values.                                                             *)
(***************************************************************************)
Limb == 256 * 256

Mag(l1, l2, l3, l4) == <<l1, l2, l3, l4>>

S64(neg, mag) == [neg |-> neg /\ mag # Mag(0, 0, 0, 0), mag |-> mag]

\* A value 0 <= n < 2^31 as an s64.
Small(n) == S64(FALSE, Mag(n % Limb, n \div Limb, 0, 0))

SmallNeg(n) == S64(TRUE, Mag(n % Limb, n \div Limb, 0, 0))

LLONG_MAX == S64(FALSE, Mag(65535, 65535, 65535, 32767))

LLONG_MIN == S64(TRUE, Mag(0, 0, 0, 32768))

MagLess(a, b) ==
    \E i \in 1..4 : a[i] < b[i] /\ \A j \in (i + 1)..4 : a[j] = b[j]

\* mag * base + digit, with the carry out of 64 bits.
MulAdd(mag, base, d) ==
    LET t1 == mag[1] * base + d
        t2 == mag[2] * base + (t1 \div Limb)
        t3 == mag[3] * base + (t2 \div Limb)
        t4 == mag[4] * base + (t3 \div Limb)
    IN  [mag |-> Mag(t1 % Limb, t2 % Limb, t3 % Limb, t4 % Limb),
         carry |-> t4 \div Limb]

\* -v in 64-bit two's complement: negating LLONG_MIN overflows and the
\* negate instruction leaves LLONG_MIN.
NegS64(v) == IF v = LLONG_MIN THEN LLONG_MIN ELSE S64(~v.neg, v.mag)

\* v + 1 for v < LLONG_MAX.
IncMag(mag) == MulAdd(mag, 1, 1).mag

DecMag(mag) ==
    LET i == CHOOSE k \in 1..4 : mag[k] # 0 /\ \A j \in 1..(k - 1) : mag[j] = 0
    IN  [k \in 1..4 |-> IF k < i THEN Limb - 1 ELSE IF k = i THEN mag[k] - 1 ELSE mag[k]]

AddOne(v) == IF v.neg THEN S64(TRUE, DecMag(v.mag)) ELSE S64(FALSE, IncMag(v.mag))

(***************************************************************************)
(* strtoll(nptr, &end, base) for base 8 and base 10.                       *)
(***************************************************************************)
DigitChars == <<"0", "1", "2", "3", "4", "5", "6", "7", "8", "9">>

IsDigit(c, base) == \E d \in 1..base : DigitChars[d] = c

DigitValue(c) == (CHOOSE d \in 1..10 : DigitChars[d] = c) - 1

IsSpace(c) == c \in {" ", "\t", "\n"}

RECURSIVE SkipSpace(_, _)
SkipSpace(s, i) == IF IsSpace(CharAt(s, i)) THEN SkipSpace(s, i + 1) ELSE i

\* The digit loop: acc is the magnitude so far, over whether it left the
\* range of the result, n the number of digits consumed.
RECURSIVE ScanDigits(_, _, _, _, _, _, _)
ScanDigits(s, i, base, neg, acc, over, n) ==
    IF ~IsDigit(CharAt(s, i), base)
    THEN [mag |-> acc, over |-> over, digits |-> n, end |-> i]
    ELSE LET step  == MulAdd(acc, base, DigitValue(CharAt(s, i)))
             limit == IF neg THEN LLONG_MIN.mag ELSE LLONG_MAX.mag
             out   == over \/ step.carry > 0 \/ MagLess(limit, step.mag)
         IN  ScanDigits(s, i + 1, base, neg, IF out THEN limit ELSE step.mag, out, n + 1)

\* value: the converted value, saturated on overflow; end: the 0-based
\* index of the first character not consumed, 0 when nothing was converted.
strtoll(s, base) ==
    LET i0   == SkipSpace(s, 0)
        neg  == CharAt(s, i0) = "-"
        i1   == IF CharAt(s, i0) \in {"-", "+"} THEN i0 + 1 ELSE i0
        scan == ScanDigits(s, i1, base, neg, Mag(0, 0, 0, 0), FALSE, 0)
    IN  IF scan.digits = 0
        THEN [value |-> Small(0), end |-> 0]
        ELSE [value |-> S64(neg, scan.mag), end |-> scan.end]

(***************************************************************************)
(* classify_range.                                                         *)
(***************************************************************************)
Digits18446744073709551615 ==
    <<"1", "8", "4", "4", "6", "7", "4", "4", "0", "7", "3", "7", "0", "9", "5", "5", "1", "6", "1", "5">>

Digits9223372036854775807 ==
    <<"9", "2", "2", "3", "3", "7", "2", "0", "3", "6", "8", "5", "4", "7", "7", "5", "8", "0", "7">>

Digits9223372036854775808 ==
    <<"9", "2", "2", "3", "3", "7", "2", "0", "3", "6", "8", "5", "4", "7", "7", "5", "8", "0", "8">>

StringRow(low, high, classification) ==
    [low |-> low, high |-> high, classification |-> classification]

\* The table of special cases, compared as strings.
strings == <<
    StringRow(<<"4">>, <<"0">>, "FLOAT_32"),
    StringRow(Rep("0", 24), <<"0", "0", "1">> \o Rep("7", 21), "UNSIGNED_64"),
    StringRow(Rep("0", 44), Rep("0", 22) \o <<"1">> \o Rep("7", 21), "UNSIGNED_64"),
    StringRow(Rep("0", 13), <<"0", "1">> \o Rep("7", 21), "UNSIGNED_64"),
    StringRow(<<"0">>, Digits18446744073709551615, "UNSIGNED_64"),
    StringRow(<<"0", "0", "1">> \o Rep("0", 21), <<"0", "0", "0">> \o Rep("7", 21), "SIGNED_64"),
    StringRow(Rep("0", 22) \o <<"1">> \o Rep("0", 21), Rep("0", 23) \o Rep("7", 21), "SIGNED_64"),
    StringRow(<<"0", "1">> \o Rep("0", 21), <<"0">> \o Rep("7", 21), "SIGNED_64"),
    StringRow(<<"-">> \o Digits9223372036854775808, Digits9223372036854775807, "SIGNED_64"),
    StringRow(<<"8">>, <<"0">>, "FLOAT_64"),
    StringRow(Rep("0", 44), <<"0", "3">> \o Rep("7", 42), "UNSIGNED_128"),
    StringRow(<<"0", "2">> \o Rep("0", 42), <<"0", "1">> \o Rep("7", 42), "SIGNED_128"),
    StringRow(Rep("0", 24), <<"0", "3">> \o Rep("7", 32), "UNQUALIFIED_128"),
    StringRow(<<"1", "6">>, <<"0">>, "FLOAT_128"),
    StringRow(<<"0">>, <<"-", "1">>, "UNQUALIFIED_128") >>

IntegerRow(low, high, classification) ==
    [low |-> low, high |-> high, classification |-> classification]

\* 4294967295, 2147483647 and 2147483648 as s64 values.
U32_MAX == S64(FALSE, Mag(65535, 65535, 0, 0))

S32_MAX == S64(FALSE, Mag(65535, 32767, 0, 0))

S32_MIN == S64(TRUE, Mag(0, 32768, 0, 0))

\* The table of ranges compared as integers.
integers == <<
    IntegerRow(Small(0), Small(255), "UNSIGNED_8"),
    IntegerRow(SmallNeg(128), Small(127), "SIGNED_8"),
    IntegerRow(Small(0), Small(127), "UNQUALIFIED_8"),
    IntegerRow(Small(0), Small(65535), "UNSIGNED_16"),
    IntegerRow(SmallNeg(32768), Small(32767), "SIGNED_16"),
    IntegerRow(Small(0), U32_MAX, "UNSIGNED_32"),
    IntegerRow(S32_MIN, S32_MAX, "SIGNED_32") >>

\* The first row of a table that satisfies hit, 0 when none does.
FirstRow(table, hit(_)) ==
    IF \E i \in 1..Len(table) : hit(table[i])
    THEN CHOOSE i \in 1..Len(table) : hit(table[i]) /\ \A j \in 1..(i - 1) : ~hit(table[j])
    ELSE 0

\* A plausible slip: every bound parsed in base 10.
RangeBaseDecimal(s) == 10

RangeBase(s) == IF CharAt(s, 0) = "0" THEN 8 ELSE 10

\* The body of classify_range once both bounds are converted.
ClassifyRows(low, high, lo, hi) ==
    LET StringHit(range) == range.low = low /\ range.high = high
        IntegerHit(range) ==
            /\ range.low = lo.value \/ range.low = NegS64(lo.value)
            /\ range.high = hi.value
        s == FirstRow(strings, StringHit)
        n == FirstRow(integers, IntegerHit)
    IN  IF s # 0 THEN Success(strings[s].classification)
        ELSE IF lo.end = 0 THEN Failure("Failed to parse low part of range as integer.")
        ELSE IF hi.end = 0 THEN Failure("Failed to parse high part of range as integer.")
        ELSE IF n # 0 THEN Success(integers[n].classification)
        ELSE Failure("Failed to classify range.")

classify_range(low, high) ==
    ClassifyRows(low, high, strtoll(low, RangeBase(low)), strtoll(high, RangeBase(high)))

\* builtin_class_size: the size in bytes of a built-in class.
builtin_class_size(bclass) ==
    CASE bclass \in {"UNSIGNED_8", "SIGNED_8", "UNQUALIFIED_8", "BOOL_8"} -> 1
      [] bclass \in {"UNSIGNED_16", "SIGNED_16"} -> 2
      [] bclass \in {"UNSIGNED_32", "SIGNED_32", "FLOAT_32"} -> 4
      [] bclass \in {"UNSIGNED_64", "SIGNED_64", "FLOAT_64"} -> 8
      [] bclass \in {"UNSIGNED_128", "SIGNED_128", "UNQUALIFIED_128", "FLOAT_128"} -> 16
      [] OTHER -> 0

(***************************************************************************)
(* STABS types.  The types of one file live in an arena, a sequence of     *)
(* StabsType records; a pointer to a StabsType is its position in the      *)
(* arena and 0 is the null pointer.  stabs_types, the index of the file,   *)
(* maps type numbers to positions.                                         *)
(***************************************************************************)
StabsTypeNumber(type) == [file |-> 0, type |-> type]

StabsType(type, descriptor) ==
    [type_number |-> StabsTypeNumber(type), anonymous |-> FALSE, has_body |-> TRUE,
     name |-> NullOpt, is_root |-> FALSE, descriptor |-> descriptor]

\* A type the string only refers to by number.
BodylessType(type_number) ==
    [type_number |-> type_number, anonymous |-> FALSE, has_body |-> FALSE,
     name |-> NullOpt, is_root |-> FALSE, descriptor |-> "NONE"]

AnonymousBodylessType ==
    [type_number |-> [file |-> -1, type |-> -1], anonymous |-> TRUE, has_body |-> FALSE,
     name |-> NullOpt, is_root |-> FALSE, descriptor |-> "NONE"]

Field(name, type, offset_bits, size_bits, is_static, visibility) ==
    [name |-> name, type |-> type, offset_bits |-> offset_bits, size_bits |-> size_bits,
     is_static |-> is_static, visibility |-> visibility]

BaseClass(type, offset, visibility) ==
    [type |-> type, offset |-> offset, visibility |-> visibility]

MemberFunction(type, visibility, modifier, vtable_index) ==
    [type |-> type, visibility |-> visibility, modifier |-> modifier, vtable_index |-> vtable_index]

MemberFunctionSet(name, overloads) == [name |-> name, overloads |-> overloads]

StructOrUnionType(type, descriptor, size, base_classes, fields, member_functions) ==
    [size |-> size, base_classes |-> base_classes, fields |-> fields,
     member_functions |-> member_functions] @@ StabsType(type, descriptor)

RangeType(type, low, high) == [low |-> low, high |-> high] @@ StabsType(type, "RANGE")

Named(type, name) == [type EXCEPT !.name = Some(name)]

(***************************************************************************)
(* Names used by the inputs.                                               *)
(***************************************************************************)
STR_int == <<"i", "n", "t">>

STR_Foo == <<"F", "o", "o">>

STR_void == <<"v", "o", "i", "d">>

STR_builtin_va_list ==
    <<"_", "_", "b", "u", "i", "l", "t", "i", "n", "_", "v", "a", "_", "l", "i", "s", "t">>

STR_S32_MIN == <<"-", "2", "1", "4", "7", "4", "8", "3", "6", "4", "8">>

STR_S32_MAX == <<"2", "1", "4", "7", "4", "8", "3", "6", "4", "7">>

STR_U32_MAX == <<"4", "2", "9", "4", "9", "6", "7", "2", "9", "5">>

(***************************************************************************)
(* AST nodes.  Every node carries the common attributes; a variant adds    *)
(* its own.                                                                *)
(***************************************************************************)
Node(descriptor) ==
    [descriptor |-> descriptor, name |-> <<>>, offset_bytes |-> -1, size_bits |-> -1,
     is_const |-> FALSE, is_volatile |-> FALSE, is_base_class |-> FALSE,
     is_vtable_pointer |-> FALSE, is_constructor_or_destructor |-> FALSE,
     is_special_member_function |-> FALSE, is_operator_member_function |-> FALSE,
     storage_class |-> "NONE", access_specifier |-> "PUBLIC"]

ErrorNode(message) == [message |-> message] @@ Node("ERROR")

BuiltIn(bclass) == [bclass |-> bclass] @@ Node("BUILTIN")

TypeName(source, unresolved_stabs) ==
    [source |-> source, unresolved_stabs |-> unresolved_stabs] @@ Node("TYPE_NAME")

\* The nodes a node owns, in order.
Children(node) ==
    CASE node.descriptor = "ARRAY" -> <<node.element_type>>
      [] node.descriptor = "BITFIELD" -> <<node.underlying_type>>
      [] node.descriptor = "FUNCTION" ->
            <<node.return_type>> \o (IF node.parameters.has_value THEN node.parameters.value ELSE <<>>)
      [] node.descriptor = "POINTER_OR_REFERENCE" -> <<node.value_type>>
      [] node.descriptor = "POINTER_TO_DATA_MEMBER" -> <<node.class_type, node.member_type>>
      [] node.descriptor = "STRUCT_OR_UNION" ->
            node.base_classes \o node.fields \o node.member_functions
      [] OTHER -> <<>>

RECURSIVE ContainsError(_)
ContainsError(node) ==
    \/ node.descriptor = "ERROR"
    \/ \E i \in 1..Len(Children(node)) : ContainsError(Children(node)[i])

\* stabs_field_visibility_to_access_specifier
stabs_field_visibility_to_access_specifier(visibility) ==
    CASE visibility = "NONE" -> "PUBLIC"
      [] visibility = "PUBLIC" -> "PUBLIC"
      [] visibility = "PROTECTED" -> "PROTECTED"
      [] visibility = "PRIVATE" -> "PRIVATE"
      [] visibility = "PUBLIC_OPTIMIZED_OUT" -> "PUBLIC"

\* Node::set_access_specifier
set_access_specifier(node, specifier) == [node EXCEPT !.access_specifier = specifier]

\* Integer division and remainder of C++: the quotient is truncated toward
\* zero and the remainder has the sign of the dividend.
CDiv(a, b) == IF a >= 0 THEN a \div b ELSE -((-a) \div b)

CRem(a, b) == a - b * CDiv(a, b)

(***************************************************************************)
(* The inputs of the lowering.  An input is a chain of descriptors, each   *)
(* wrapping the next, that ends in a leaf; the arena holds five auxiliary  *)
(* types followed by the chain, whose first type is the type passed to     *)
(* stabs_type_to_ast.  A type with a body has its position as type number  *)
(* and is entered in the index under it.                                   *)
(***************************************************************************)
Aux == [int |-> 1, index |-> 2, sibling |-> 3, ring_pointer |-> 4, ring_back |-> 5, root |-> 6]

Wrappers == {
    "TYPE_REFERENCE", "ARRAY", "FUNCTION", "VOLATILE_QUALIFIER", "CONST_QUALIFIER",
    "STRUCT_FIELD", "UNION_FIELD", "STRUCT_BASE", "STRUCT_METHOD",
    "METHOD_RETURN", "METHOD_PARAMETER", "POINTER", "REFERENCE", "TYPE_ATTRIBUTE",
    "MEMBER_CLASS", "MEMBER_TYPE", "BODYLESS" }

Leaves == {
    "RANGE_SIGNED", "RANGE_UNSIGNED", "RANGE_NAMED", "RANGE_UNCLASSIFIED", "ENUM",
    "CROSS_REFERENCE_ENUM", "CROSS_REFERENCE_STRUCT", "FLOATING_POINT_BUILTIN",
    "BUILTIN_BOOL", "BUILTIN_UNKNOWN", "VOID", "ARRAY_BAD_INDEX",
    "MISSING", "ANONYMOUS", "SELF", "RING" }

\* The leaves that make the lowering come back to a type it is lowering.
CyclicLeaves == {"SELF", "RING"}

Input(wrappers, leaf) ==
    [wrappers |-> wrappers, leaf |-> leaf, root_name |-> NullOpt, root_is_root |-> TRUE,
     size_bits |-> 32, offset_bits |-> 32, is_static |-> FALSE,
     low |-> <<"0">>, high |-> <<"9">>,
     set_name |-> <<"f">>, other_set_name |-> <<"f">>,
     depth |-> 0, substitute_type_name |-> FALSE, force_substitute |-> FALSE,
     order |-> <<1, 2, 3>>]

\* The type at position pos that wraps the type child, found at pos + 1.
WrapperType(w, pos, child, inp) ==
    CASE w = "TYPE_REFERENCE" -> [type |-> pos + 1] @@ StabsType(pos, "TYPE_REFERENCE")
      [] w = "ANONYMOUS_REFERENCE" ->
            [type |-> pos + 1, descriptor |-> "TYPE_REFERENCE", has_body |-> TRUE]
                @@ AnonymousBodylessType
      [] w = "ARRAY" ->
            [element_type |-> pos + 1, index_type |-> Aux.index] @@ StabsType(pos, "ARRAY")
      [] w = "FUNCTION" -> [return_type |-> pos + 1] @@ StabsType(pos, "FUNCTION")
      [] w = "VOLATILE_QUALIFIER" -> [type |-> pos + 1] @@ StabsType(pos, "VOLATILE_QUALIFIER")
      [] w = "CONST_QUALIFIER" -> [type |-> pos + 1] @@ StabsType(pos, "CONST_QUALIFIER")
      [] w \in {"STRUCT_FIELD", "UNION_FIELD"} ->
            StructOrUnionType(pos, IF w = "STRUCT_FIELD" THEN "STRUCT" ELSE "UNION", 8, <<>>,
                <<Field(<<"a">>, Aux.int, 0, 32, FALSE, "PUBLIC"),
                  Field(<<"b">>, pos + 1, inp.offset_bits, inp.size_bits, inp.is_static,
                        "PRIVATE")>>,
                <<>>)
      [] w = "STRUCT_BASE" ->
            StructOrUnionType(pos, "STRUCT", 8,
                <<BaseClass(Aux.sibling, 0, "PUBLIC"), BaseClass(pos + 1, 4, "PROTECTED")>>,
                <<>>, <<>>)
      [] w = "STRUCT_METHOD" ->
            StructOrUnionType(pos, "STRUCT", 8, <<>>, <<>>,
                <<MemberFunctionSet(inp.set_name,
                      <<MemberFunction(pos + 1, "PUBLIC", "NORMAL", -1)>>)>>)
      [] w = "METHOD_RETURN" ->
            [return_type |-> pos + 1, parameter_types |-> <<Aux.int>>] @@ StabsType(pos, "METHOD")
      [] w = "METHOD_PARAMETER" ->
            [return_type |-> Aux.int, parameter_types |-> <<Aux.int, pos + 1>>]
                @@ StabsType(pos, "METHOD")
      [] w = "POINTER" -> [value_type |-> pos + 1] @@ StabsType(pos, "POINTER")
      [] w = "REFERENCE" -> [value_type |-> pos + 1] @@ StabsType(pos, "REFERENCE")
      [] w = "TYPE_ATTRIBUTE" ->
            [type |-> pos + 1, size_bits |-> 16] @@ StabsType(pos, "TYPE_ATTRIBUTE")
      [] w = "MEMBER_CLASS" ->
            [class_type |-> pos + 1, member_type |-> Aux.int]
                @@ StabsType(pos, "POINTER_TO_DATA_MEMBER")
      [] w = "MEMBER_TYPE" ->
            [class_type |-> Aux.int, member_type |-> pos + 1]
                @@ StabsType(pos, "POINTER_TO_DATA_MEMBER")
      [] w = "BODYLESS" ->
            IF child.anonymous THEN AnonymousBodylessType ELSE BodylessType(child.type_number)

\* The types of a leaf, the leaf itself first.
LeafTypes(leaf, pos) ==
    CASE leaf = "RANGE_SIGNED" -> <<RangeType(pos, STR_S32_MIN, STR_S32_MAX)>>
      [] leaf = "RANGE_UNSIGNED" -> <<RangeType(pos, <<"0">>, STR_U32_MAX)>>
      [] leaf = "RANGE_NAMED" -> <<Named(RangeType(pos, STR_S32_MIN, STR_S32_MAX), STR_int)>>
      [] leaf = "RANGE_UNCLASSIFIED" -> <<RangeType(pos, <<"1">>, <<"2">>)>>
      [] leaf = "ENUM" ->
            <<[fields |-> <<<<<<"A">>, 0>>, <<<<"B">>, 1>>, <<<<"C">>, -1>>>>] @@ StabsType(pos, "ENUM")>>
      [] leaf = "CROSS_REFERENCE_ENUM" ->
            <<[identifier |-> <<"E">>, type |-> "ENUM"] @@ StabsType(pos, "CROSS_REFERENCE")>>
      [] leaf = "CROSS_REFERENCE_STRUCT" ->
            <<[identifier |-> <<"S">>, type |-> "STRUCT"] @@ StabsType(pos, "CROSS_REFERENCE")>>
      [] leaf = "FLOATING_POINT_BUILTIN" ->
            <<[bytes |-> 4] @@ StabsType(pos, "FLOATING_POINT_BUILTIN")>>
      [] leaf = "BUILTIN_BOOL" -> <<[type_id |-> 16] @@ StabsType(pos, "BUILTIN")>>
      [] leaf = "BUILTIN_UNKNOWN" -> <<[type_id |-> 5] @@ StabsType(pos, "BUILTIN")>>
      [] leaf = "VOID" ->
            <<[type |-> pos + 1] @@ StabsType(pos, "TYPE_REFERENCE"),
              BodylessType(StabsTypeNumber(pos))>>
      [] leaf = "ARRAY_BAD_INDEX" ->
            <<[element_type |-> Aux.int, index_type |-> pos + 1] @@ StabsType(pos, "ARRAY"),
              RangeType(pos + 1, <<"1">>, <<"9">>)>>
      [] leaf = "MISSING" -> <<BodylessType(StabsTypeNumber(0))>>
      [] leaf = "ANONYMOUS" -> <<AnonymousBodylessType>>
      [] leaf = "SELF" -> <<BodylessType(StabsTypeNumber(pos))>>
      [] leaf = "RING" -> <<BodylessType(StabsTypeNumber(Aux.ring_pointer))>>
      [] leaf = "BACK" -> <<BodylessType(StabsTypeNumber(Aux.root))>>
      [] leaf = "PARENT" -> <<BodylessType(StabsTypeNumber(pos - 1))>>

\* The leaves whose members are arranged by the order of the input, and the
\* struct of two function sets.
OrderedLeaves == {"STRUCT_ORDERED", "ENUM_ORDERED", "STRUCT_SETS"}

MemberNames == <<<<"a">>, <<"b">>, <<"c">>>>

\* A struct of three base classes, three fields, the second of them a
\* bitfield, and two sets of two overloads of the function type that follows
\* it; an enum of three constants; a struct of a set of two methods, the
\* first without parameters, the second with one, and of a set of one
\* function.
OrderedTypes(inp, pos) ==
    LET o == inp.order
    IN  IF inp.leaf = "STRUCT_SETS"
        THEN <<StructOrUnionType(pos, "STRUCT", 4, <<>>, <<>>,
                   <<MemberFunctionSet(inp.set_name,
                         <<MemberFunction(pos + 1, "PUBLIC", "NORMAL", -1),
                           MemberFunction(pos + 2, "PUBLIC", "NORMAL", -1)>>),
                     MemberFunctionSet(inp.other_set_name,
                         <<MemberFunction(pos + 3, "PUBLIC", "NORMAL", -1)>>)>>),
               [return_type |-> Aux.int, parameter_types |-> <<>>]
                   @@ StabsType(pos + 1, "METHOD"),
               [return_type |-> Aux.int, parameter_types |-> <<Aux.int>>]
                   @@ StabsType(pos + 2, "METHOD"),
               [return_type |-> Aux.int] @@ StabsType(pos + 3, "FUNCTION")>>
        ELSE IF inp.leaf = "STRUCT_ORDERED"
        THEN <<StructOrUnionType(pos, "STRUCT", 12,
                   [k \in 1..3 |-> BaseClass(Aux.sibling, 4 * o[k], "PUBLIC")],
                   [k \in 1..3 |-> Field(MemberNames[o[k]], Aux.int, 32 * (k - 1),
                                         IF k = 2 THEN 3 ELSE 32, FALSE, "PUBLIC")],
                   <<MemberFunctionSet(MemberNames[o[1]],
                         <<MemberFunction(pos + 1, "PUBLIC", "NORMAL", o[1]),
                           MemberFunction(pos + 1, "PRIVATE", "NORMAL", o[2])>>),
                     MemberFunctionSet(MemberNames[o[3]],
                         <<MemberFunction(pos + 1, "PUBLIC", "NORMAL", o[3]),
                           MemberFunction(pos + 1, "PRIVATE", "NORMAL", o[1])>>)>>),
               [return_type |-> Aux.int] @@ StabsType(pos + 1, "FUNCTION")>>
        ELSE <<[fields |-> [k \in 1..3 |-> <<MemberNames[o[k]], o[k] - 2>>]]
                   @@ StabsType(pos, "ENUM")>>

\* The type of the chain that the k-th descriptor, found at pos, refers to
\* as far as its number and its being anonymous go: a type without a body
\* has those of the type after it.
RECURSIVE ChainHead(_, _, _, _)
ChainHead(inp, k, pos, leaf) ==
    IF k > Len(inp.wrappers) THEN leaf
    ELSE IF inp.wrappers[k] = "BODYLESS" THEN ChainHead(inp, k + 1, pos + 1, leaf)
    ELSE WrapperType(inp.wrappers[k], pos, leaf, inp)

\* The types of the chain from its i-th descriptor, found at pos, on.
ChainTypes(inp, i, pos) ==
    LET n == Len(inp.wrappers) - i + 1
        leaf_types == IF inp.leaf \in OrderedLeaves THEN OrderedTypes(inp, pos + n)
                      ELSE LeafTypes(inp.leaf, pos + n)
    IN  [k \in 1..n |->
            WrapperType(inp.wrappers[i + k - 1], pos + k - 1,
                        ChainHead(inp, i + k, pos + k, leaf_types[1]), inp)]
            \o leaf_types

\* The arena of an input.
Arena(inp) ==
    LET chain == ChainTypes(inp, 1, Aux.root)
        root == IF ~inp.root_name.has_value THEN chain[1]
                ELSE [Named(chain[1], inp.root_name.value) EXCEPT !.is_root = inp.root_is_root]
    IN  << RangeType(Aux.int, STR_S32_MIN, STR_S32_MAX),
           RangeType(Aux.index, inp.low, inp.high),
           Named(StructOrUnionType(Aux.sibling, "STRUCT", 4, <<>>, <<>>, <<>>), STR_Foo),
           [value_type |-> Aux.ring_back] @@ StabsType(Aux.ring_pointer, "POINTER"),
           BodylessType(chain[1].type_number) >>
        \o <<root>> \o Tail(chain)

\* state.stabs_types->find(type_number): the position the index holds for
\* the number, 0 when it holds none.
FindType(arena, type_number) ==
    LET hits == {p \in 1..Len(arena) :
                    ~arena[p].anonymous /\ arena[p].type_number = type_number
                        /\ type_number = StabsTypeNumber(p)}
    IN  IF hits = {} THEN 0 ELSE CHOOSE p \in hits : TRUE

(***************************************************************************)
(* detect_bitfield.                                                        *)
(***************************************************************************)
\* The bound of the loop that resolves type references.
ResolveLimit == 50

\* A plausible slip: the test against the bound made before the step of
\* the next turn, so that one more type is examined.
RECURSIVE ResolveTypeReferencesLate(_, _, _)
ResolveTypeReferencesLate(arena, type, i) ==
    LET t == arena[type]
        next == IF ~t.has_body THEN FindType(arena, t.type_number) ELSE t.type
    IN  IF ~t.has_body /\ (t.anonymous \/ next = 0 \/ next = type)
        THEN [resolved |-> FALSE, type |-> type, steps |-> i]
        ELSE IF t.has_body /\ t.descriptor \notin
                    {"TYPE_REFERENCE", "CONST_QUALIFIER", "VOLATILE_QUALIFIER"}
        THEN [resolved |-> TRUE, type |-> type, steps |-> i]
        ELSE IF i = ResolveLimit
        THEN [resolved |-> FALSE, type |-> next, steps |-> i + 1]
        ELSE ResolveTypeReferencesLate(arena, next, i + 1)

\* The loop "Resolve type references": i is the loop counter.  resolved is
\* TRUE when the loop is left by its break, FALSE when detect_bitfield
\* returns false from inside the loop.
RECURSIVE ResolveTypeReferences(_, _, _)
ResolveTypeReferences(arena, type, i) ==
    LET t == arena[type]
        next == IF ~t.has_body THEN FindType(arena, t.type_number) ELSE t.type
    IN  IF ~t.has_body /\ (t.anonymous \/ next = 0 \/ next = type)
        THEN [resolved |-> FALSE, type |-> type, steps |-> i]
        ELSE IF t.has_body /\ t.descriptor \notin
                    {"TYPE_REFERENCE", "CONST_QUALIFIER", "VOLATILE_QUALIFIER"}
        THEN [resolved |-> TRUE, type |-> type, steps |-> i]
        ELSE IF i = ResolveLimit - 1
        THEN [resolved |-> FALSE, type |-> next, steps |-> i + 1]
        ELSE ResolveTypeReferences(arena, next, i + 1)

\* CCC_RETURN_IF_ERROR(bclass); builtin_class_size(*bclass) * 8
SizeOfClass(bclass) ==
    IF bclass.ok THEN Success(builtin_class_size(bclass.value) * 8) ELSE bclass

\* "Determine the size of the underlying type": a Result holding the size
\* in bits, 0 when the descriptor has none.
UnderlyingTypeSizeBits(t) ==
    CASE t.descriptor = "RANGE" -> SizeOfClass(classify_range(t.low, t.high))
      [] t.descriptor = "CROSS_REFERENCE" -> Success(IF t.type = "ENUM" THEN 32 ELSE 0)
      [] t.descriptor = "TYPE_ATTRIBUTE" -> Success(t.size_bits)
      [] t.descriptor = "BUILTIN" -> Success(8)
      [] OTHER -> Success(0)

\* The last two statements, given the size found.
CompareSize(field, size) ==
    IF ~size.ok THEN size
    ELSE IF size.value = 0 THEN Success(FALSE)
    ELSE Success(field.size_bits # size.value)

\* The statements after the loop, given the outcome r of the loop.
DetectResolved(field, arena, r) ==
    IF ~r.resolved THEN Success(FALSE)
    ELSE CompareSize(field, UnderlyingTypeSizeBits(arena[r.type]))

\* A plausible slip: the test for static fields left out.
detect_bitfield_static(field, arena) ==
    DetectResolved(field, arena, ResolveTypeReferences(arena, field.type, 0))

detect_bitfield(field, arena) ==
    IF field.is_static THEN Success(FALSE)
    ELSE DetectResolved(field, arena, ResolveTypeReferences(arena, field.type, 0))

(***************************************************************************)
(* check_member_function.                                                  *)
(***************************************************************************)
StartsWith(s, start) == Len(s) >= Len(start) /\ SubSeq(s, 1, Len(start)) = start

\* std::string_view(name).substr(0, name.find("<"))
NoTemplateArgs(name) ==
    IF \E i \in 1..Len(name) : name[i] = "<"
    THEN SubSeq(name, 1, (CHOOSE i \in 1..Len(name) :
                              name[i] = "<" /\ \A j \in 1..(i - 1) : name[j] # "<") - 1)
    ELSE name

STR_operator_assign == <<"o", "p", "e", "r", "a", "t", "o", "r", "=">>

STR_operator_plus == <<"o", "p", "e", "r", "a", "t", "o", "r", "+">>

STR_as == <<"_", "_", "a", "s">>

STR_pl == <<"_", "_", "p", "l">>

STR_ct == <<"_", "_", "c", "t">>

STR_comp_ctor == <<"_", "_", "c", "o", "m", "p", "_", "c", "t", "o", "r">>

STR_base_ctor == <<"_", "_", "b", "a", "s", "e", "_", "c", "t", "o", "r">>

STR_dt == <<"_", "_", "d", "t">>

STR_comp_dtor == <<"_", "_", "c", "o", "m", "p", "_", "d", "t", "o", "r">>

STR_base_dtor == <<"_", "_", "b", "a", "s", "e", "_", "d", "t", "o", "r">>

STR_deleting_dtor ==
    <<"_", "_", "d", "e", "l", "e", "t", "i", "n", "g", "_", "d", "t", "o", "r">>

\* demangler.cplus_demangle_opname: the hook the driver wires, which knows
\* the gcc opnames; NullOpt stands for a null result.
cplus_demangle_opname(mangled_name) ==
    CASE mangled_name = STR_as -> Some(STR_operator_assign)
      [] mangled_name = STR_pl -> Some(STR_operator_plus)
      [] OTHER -> NullOpt

\* The flags of a member function named name.
MemberFunctionInfo(name, type_name_no_template_args) ==
    LET is_constructor ==
            \/ name \in {STR_ct, STR_comp_ctor, STR_base_ctor}
            \/ type_name_no_template_args # <<>> /\ name = type_name_no_template_args
        is_destructor ==
            \/ name \in {STR_dt, STR_comp_dtor, STR_base_dtor, STR_deleting_dtor}
            \/ /\ name # <<>>
               /\ name[1] = "~"
               /\ Tail(name) = type_name_no_template_args
        is_constructor_or_destructor ==
            is_constructor \/ is_destructor \/ StartsWith(name, <<"$", "_">>)
    IN  [name |-> name,
         is_constructor_or_destructor |-> is_constructor_or_destructor,
         is_special_member_function |->
             is_constructor_or_destructor \/ name = STR_operator_assign,
         is_operator_member_function |-> FALSE]

\* info.name: the demangled name when the hook gives one that is not empty,
\* else the mangled name.
InfoName(mangled_name, demangled_name) ==
    IF demangled_name.has_value /\ demangled_name.value # <<>> THEN demangled_name.value
    ELSE mangled_name

check_member_function(mangled_name, type_name_no_template_args, demangler_functions) ==
    MemberFunctionInfo(
        InfoName(mangled_name,
                 IF demangler_functions = "opname" THEN cplus_demangle_opname(mangled_name)
                 ELSE NullOpt),
        type_name_no_template_args)

(***************************************************************************)
(* The lowering as a machine.  A frame of the stack is one call of         *)
(* stabs_type_to_ast, field_to_ast or member_functions_to_ast: its         *)
(* arguments, the place it has reached (pc) and its locals.  type and      *)
(* enclosing_struct are positions of the arena.                            *)
(***************************************************************************)
CallDepthLimit == 200

Frame(fn, type, enclosing_struct, depth, substitute_type_name, force_substitute) ==
    [fn |-> fn, pc |-> "entry", type |-> type, enclosing_struct |-> enclosing_struct,
     depth |-> depth, substitute_type_name |-> substitute_type_name,
     force_substitute |-> force_substitute,
     node |-> NullNode, i |-> 1, j |-> 1, only_special_functions |-> TRUE]

Top == stack[Len(stack)]

\* The type the innermost call was given.
TopType == stabs_types[Top.type]

STRICT_PARSING == "STRICT_PARSING"

NO_MEMBER_FUNCTIONS == "NO_MEMBER_FUNCTIONS"

NO_GENERATED_MEMBER_FUNCTIONS == "NO_GENERATED_MEMBER_FUNCTIONS"

\* The innermost call is at pc and no call it made has returned since.
At(fn, pc) ==
    /\ status = "running"
    /\ stack # <<>>
    /\ Top.fn = fn
    /\ Top.pc = pc
    /\ ret = NoResult

\* A call made by the innermost call, which waits at pc, has returned.
Returned(fn, pc) ==
    /\ status = "running"
    /\ stack # <<>>
    /\ Top.fn = fn
    /\ Top.pc = pc
    /\ ret # NoResult

\* return result;
Return(result) ==
    /\ stack' = SubSeq(stack, 1, Len(stack) - 1)
    /\ ret' = result
    /\ status' = IF Len(stack) = 1 THEN "done" ELSE "running"
    /\ UNCHANGED <<input, stabs_types, parser_flags, demangler, range_vars, symtab_vars, types_vars, path_vars>>

\* The innermost call goes on as frame.
Continue(frame) ==
    /\ stack' = [stack EXCEPT ![Len(stack)] = frame]
    /\ ret' = NoResult
    /\ UNCHANGED <<input, stabs_types, parser_flags, demangler, status, range_vars, symtab_vars, types_vars, path_vars>>

\* The innermost call, left as frame, calls callee.
Call(frame, callee) ==
    /\ stack' = Append([stack EXCEPT ![Len(stack)] = frame], callee)
    /\ ret' = NoResult
    /\ UNCHANGED <<input, stabs_types, parser_flags, demangler, status, range_vars, symtab_vars, types_vars, path_vars>>

\* A nested call of stabs_type_to_ast with the same enclosing_struct and
\* depth + 1; the caller waits at pc with node under construction.
CallNested(pc, node, type, substitute_type_name, force_substitute) ==
    Call([Top EXCEPT !.pc = pc, !.node = node],
         Frame("stabs_type_to_ast", type, Top.enclosing_struct, Top.depth + 1,
               substitute_type_name, force_substitute))

\* CCC_RETURN_IF_ERROR(node), then the statements that build result from
\* *node, then return result.
ReturnIfErrorElse(result) == IF ~ret.ok THEN Return(ret) ELSE Return(Success(result))

(***************************************************************************)
(* stabs_type_to_ast: the checks made before the descriptor is examined.   *)
(***************************************************************************)
\* A plausible slip: the call at the limit refused as well.
DepthGuardHitAtLimit == Top.depth >= CallDepthLimit

DepthGuardHit == Top.depth > CallDepthLimit

\* A plausible slip: try_substitute without its test of the depth.
SubstituteTypeNameHitAtTop ==
    /\ TopType.name.has_value
    /\ LET try_substitute == TopType.is_root \/ TopType.descriptor \in {"RANGE", "BUILTIN"}
           is_name_empty == TopType.name.value \in {<<>>, <<" ">>}
           is_cross_reference == TopType.descriptor = "CROSS_REFERENCE"
           is_void == TopType.name.value \in {STR_void, STR_builtin_va_list}
       IN  /\ Top.substitute_type_name \/ try_substitute
           /\ ~is_name_empty
           /\ ~is_cross_reference
           /\ ~is_void

SubstituteTypeNameHit ==
    /\ TopType.name.has_value
    /\ LET try_substitute ==
               Top.depth > 0 /\ (TopType.is_root \/ TopType.descriptor \in {"RANGE", "BUILTIN"})
           is_name_empty == TopType.name.value \in {<<>>, <<" ">>}
           is_cross_reference == TopType.descriptor = "CROSS_REFERENCE"
           is_void == TopType.name.value \in {STR_void, STR_builtin_va_list}
       IN  /\ Top.substitute_type_name \/ try_substitute
           /\ ~is_name_empty
           /\ ~is_cross_reference
           /\ ~is_void

\* A plausible slip: the test of the enclosing struct turned around.
SubstituteThisHitAnonymous ==
    LET can_compare_type_numbers ==
            /\ ~TopType.anonymous
            /\ Top.enclosing_struct # 0
            /\ stabs_types[Top.enclosing_struct].anonymous
    IN  /\ Top.force_substitute
        /\ can_compare_type_numbers
        /\ TopType.type_number = stabs_types[Top.enclosing_struct].type_number

SubstituteThisHit ==
    LET can_compare_type_numbers ==
            /\ ~TopType.anonymous
            /\ Top.enclosing_struct # 0
            /\ ~stabs_types[Top.enclosing_struct].anonymous
    IN  /\ Top.force_substitute
        /\ can_compare_type_numbers
        /\ TopType.type_number = stabs_types[Top.enclosing_struct].type_number

\* Control reaches the switch with a descriptor among descriptors.
AtCaseOf(descriptors) ==
    /\ At("stabs_type_to_ast", "entry")
    /\ ~DepthGuardHit
    /\ ~SubstituteTypeNameHit
    /\ ~SubstituteThisHit
    /\ TopType.has_body
    /\ TopType.descriptor \in descriptors

AtCase(descriptor) == AtCaseOf({descriptor})

\* A lowering that takes every parse for a strict one.
StrictParsingAlways == TRUE

\* state.parser_flags & STRICT_PARSING
StrictParsing == STRICT_PARSING \in parser_flags

CallDepthMessage == "Call depth greater than 200 in stabs_type_to_ast, probably infinite recursion."

DepthGuard ==
    /\ At("stabs_type_to_ast", "entry")
    /\ DepthGuardHit
    /\ guard_fired' = TRUE
    /\ IF StrictParsing
       THEN Return(Failure(CallDepthMessage))
       ELSE Return(Success(ErrorNode(CallDepthMessage)))

UnresolvedStabs(type_name, type, type_number) ==
    [type_name |-> type_name, type |-> type, referenced_file_handle |-> 0,
     stabs_type_number_file |-> type_number.file, stabs_type_number_type |-> type_number.type]

SubstituteTypeName ==
    /\ At("stabs_type_to_ast", "entry")
    /\ ~DepthGuardHit
    /\ SubstituteTypeNameHit
    /\ Return(Success(TypeName("REFERENCE",
                               UnresolvedStabs(TopType.name, None, TopType.type_number))))
    /\ UNCHANGED guard_fired

SubstituteThis ==
    /\ At("stabs_type_to_ast", "entry")
    /\ ~DepthGuardHit
    /\ ~SubstituteTypeNameHit
    /\ SubstituteThisHit
    /\ Return(Success(TypeName("THIS", UnresolvedStabs(NullOpt, None, TopType.type_number))))
    /\ UNCHANGED guard_fired

\* error_message, without the "(file,type)." of the type number it ends with.
LookupMessage == "Failed to lookup STABS type by its type number."

\* A plausible slip: the indexed type lowered at the depth of the call.
LookupTypeSameDepth ==
    /\ At("stabs_type_to_ast", "entry")
    /\ ~DepthGuardHit
    /\ ~SubstituteTypeNameHit
    /\ ~SubstituteThisHit
    /\ ~TopType.has_body
    /\ LET stabs_type == FindType(stabs_types, TopType.type_number)
       IN  IF TopType.anonymous
           THEN Return(Failure("Cannot lookup type (type is anonymous)."))
           ELSE IF stabs_type = 0
           THEN IF StrictParsing
                THEN Return(Failure(LookupMessage))
                ELSE Return(Success(ErrorNode(LookupMessage)))
           ELSE Call([Top EXCEPT !.pc = "lookup"],
                     Frame("stabs_type_to_ast", stabs_type, Top.enclosing_struct, Top.depth,
                           Top.substitute_type_name, Top.force_substitute))
    /\ UNCHANGED guard_fired

\* if(!type.has_body)
LookupType ==
    /\ At("stabs_type_to_ast", "entry")
    /\ ~DepthGuardHit
    /\ ~SubstituteTypeNameHit
    /\ ~SubstituteThisHit
    /\ ~TopType.has_body
    /\ LET stabs_type == FindType(stabs_types, TopType.type_number)
       IN  IF TopType.anonymous
           THEN Return(Failure("Cannot lookup type (type is anonymous)."))
           ELSE IF stabs_type = 0
           THEN IF StrictParsing
                THEN Return(Failure(LookupMessage))
                ELSE Return(Success(ErrorNode(LookupMessage)))
           ELSE CallNested("lookup", NullNode, stabs_type,
                           Top.substitute_type_name, Top.force_substitute)
    /\ UNCHANGED guard_fired

\* return stabs_type_to_ast(*stabs_type->second, ...);
FinishLookup ==
    /\ Returned("stabs_type_to_ast", "lookup")
    /\ Return(ret)
    /\ UNCHANGED guard_fired

(***************************************************************************)
(* stabs_type_to_ast: the cases of the switch on the descriptor.           *)
(***************************************************************************)
\* A plausible slip: the referenced type lowered as the other descriptors
\* lower theirs, with substitute_type_name set.
LowerTypeReferenceSubstituting ==
    /\ AtCase("TYPE_REFERENCE")
    /\ LET referenced == stabs_types[TopType.type]
       IN  IF \/ TopType.anonymous
              \/ referenced.anonymous
              \/ referenced.type_number # TopType.type_number
           THEN CallNested("type_reference", NullNode, TopType.type,
                           TRUE, Top.force_substitute)
           ELSE Return(Success(BuiltIn("VOID")))
    /\ UNCHANGED guard_fired

LowerTypeReference ==
    /\ AtCase("TYPE_REFERENCE")
    /\ LET referenced == stabs_types[TopType.type]
       IN  IF \/ TopType.anonymous
              \/ referenced.anonymous
              \/ referenced.type_number # TopType.type_number
           THEN CallNested("type_reference", NullNode, TopType.type,
                           Top.substitute_type_name, Top.force_substitute)
           ELSE Return(Success(BuiltIn("VOID")))
    /\ UNCHANGED guard_fired

FinishTypeReference ==
    /\ Returned("stabs_type_to_ast", "type_reference")
    /\ ReturnIfErrorElse(ret.value)
    /\ UNCHANGED guard_fired

Array(element_type, element_count) ==
    [element_type |-> element_type, element_count |-> element_count] @@ Node("ARRAY")

LowerArray ==
    /\ AtCase("ARRAY")
    /\ CallNested("array", Array(NullNode, -1), TopType.element_type, TRUE, Top.force_substitute)
    /\ UNCHANGED guard_fired

\* An s64 of magnitude below 2^31 as an integer.
ToInt(v) ==
    LET n == v.mag[1] + Limb * v.mag[2]
    IN  IF v.neg THEN -n ELSE n

\* A plausible slip: the bounds of the index parsed as classify_range
\* parses them.
ArrayBaseOctal(s) == IF CharAt(s, 0) = "0" THEN 8 ELSE 10

\* The base strtoll is given for the bounds of an array index.
ArrayBase(s) == 10

\* The statements of the ARRAY case after the element type is lowered.
ArrayOfBounds(array, low, high) ==
    IF low.end = 0 THEN Failure("Failed to parse low part of range as integer.")
    ELSE IF low.value # Small(0) THEN Failure("Invalid index type for array.")
    ELSE IF high.end = 0 THEN Failure("Failed to parse low part of range as integer.")
    ELSE IF high.value = U32_MAX THEN Success([array EXCEPT !.element_count = 0])
    ELSE Success([array EXCEPT !.element_count = ToInt(AddOne(high.value))])

ArrayOfIndex(array, index) ==
    ArrayOfBounds(array, strtoll(index.low, ArrayBase(index.low)),
                  strtoll(index.high, ArrayBase(index.high)))

FinishArray ==
    /\ Returned("stabs_type_to_ast", "array")
    /\ IF ~ret.ok THEN Return(ret)
       ELSE Return(ArrayOfIndex([Top.node EXCEPT !.element_type = ret.value],
                                stabs_types[TopType.index_type]))
    /\ UNCHANGED guard_fired

LowerEnum ==
    /\ AtCase("ENUM")
    /\ Return(Success([constants |-> TopType.fields] @@ Node("ENUM")))
    /\ UNCHANGED guard_fired

Function(return_type, parameters) ==
    [return_type |-> return_type, parameters |-> parameters,
     modifier |-> "NONE", vtable_index |-> -1] @@ Node("FUNCTION")

LowerFunction ==
    /\ AtCase("FUNCTION")
    /\ CallNested("function", Function(NullNode, NullOpt), TopType.return_type, TRUE,
                  Top.force_substitute)
    /\ UNCHANGED guard_fired

FinishFunction ==
    /\ Returned("stabs_type_to_ast", "function")
    /\ ReturnIfErrorElse([Top.node EXCEPT !.return_type = ret.value])
    /\ UNCHANGED guard_fired

LowerVolatileQualifier ==
    /\ AtCase("VOLATILE_QUALIFIER")
    /\ CallNested("volatile_qualifier", NullNode, TopType.type,
                  Top.substitute_type_name, Top.force_substitute)
    /\ UNCHANGED guard_fired

\* A plausible slip: the node of the inner type returned as it is.
FinishVolatileQualifierUnset ==
    /\ Returned("stabs_type_to_ast", "volatile_qualifier")
    /\ ReturnIfErrorElse(ret.value)
    /\ UNCHANGED guard_fired

FinishVolatileQualifier ==
    /\ Returned("stabs_type_to_ast", "volatile_qualifier")
    /\ ReturnIfErrorElse([ret.value EXCEPT !.is_volatile = TRUE])
    /\ UNCHANGED guard_fired

LowerConstQualifier ==
    /\ AtCase("CONST_QUALIFIER")
    /\ CallNested("const_qualifier", NullNode, TopType.type,
                  Top.substitute_type_name, Top.force_substitute)
    /\ UNCHANGED guard_fired

\* result = std::move(*node); result->is_const = true; with no check of
\* node before it.  Taking the value of a failed Result is undefined: the
\* process is stopped by the assertion of Result or by the write through
\* the null pointer it hands out.
FinishConstQualifier ==
    /\ Returned("stabs_type_to_ast", "const_qualifier")
    /\ IF ret.ok
       THEN Return(Success([ret.value EXCEPT !.is_const = TRUE]))
       ELSE /\ status' \in {"aborted", "segfault"}
            /\ UNCHANGED <<input, stabs_types, parser_flags, demangler, stack, ret, range_vars, symtab_vars, types_vars, path_vars>>
    /\ UNCHANGED guard_fired

\* CCC_RETURN_IF_ERROR(bclass); builtin->bclass = *bclass;
RangeBuiltIn(bclass) == IF ~bclass.ok THEN bclass ELSE Success(BuiltIn(bclass.value))

LowerRange ==
    /\ AtCase("RANGE")
    /\ Return(RangeBuiltIn(classify_range(TopType.low, TopType.high)))
    /\ UNCHANGED guard_fired

LowerCrossReference ==
    /\ AtCase("CROSS_REFERENCE")
    /\ Return(Success(TypeName("CROSS_REFERENCE",
           [type_name |-> Some(TopType.identifier), type |-> TopType.type,
            referenced_file_handle |-> -1,
            stabs_type_number_file |-> -1, stabs_type_number_type |-> -1])))
    /\ UNCHANGED guard_fired

LowerFloatingPointBuiltIn ==
    /\ AtCase("FLOATING_POINT_BUILTIN")
    /\ Return(Success(BuiltIn(
           CASE TopType.bytes = 1 -> "UNSIGNED_8"
             [] TopType.bytes = 2 -> "UNSIGNED_16"
             [] TopType.bytes = 4 -> "UNSIGNED_32"
             [] TopType.bytes = 8 -> "UNSIGNED_64"
             [] TopType.bytes = 16 -> "UNSIGNED_128"
             [] OTHER -> "UNSIGNED_8")))
    /\ UNCHANGED guard_fired

PointerOrReference(is_pointer) ==
    [is_pointer |-> is_pointer, value_type |-> NullNode] @@ Node("POINTER_OR_REFERENCE")

LowerPointer ==
    /\ AtCase("POINTER")
    /\ CallNested("pointer", PointerOrReference(TRUE), TopType.value_type, TRUE,
                  Top.force_substitute)
    /\ UNCHANGED guard_fired

FinishPointer ==
    /\ Returned("stabs_type_to_ast", "pointer")
    /\ ReturnIfErrorElse([Top.node EXCEPT !.value_type = ret.value])
    /\ UNCHANGED guard_fired

LowerReference ==
    /\ AtCase("REFERENCE")
    /\ CallNested("reference", PointerOrReference(FALSE), TopType.value_type, TRUE,
                  Top.force_substitute)
    /\ UNCHANGED guard_fired

FinishReference ==
    /\ Returned("stabs_type_to_ast", "reference")
    /\ ReturnIfErrorElse([Top.node EXCEPT !.value_type = ret.value])
    /\ UNCHANGED guard_fired

LowerTypeAttribute ==
    /\ AtCase("TYPE_ATTRIBUTE")
    /\ CallNested("type_attribute", NullNode, TopType.type,
                  Top.substitute_type_name, Top.force_substitute)
    /\ UNCHANGED guard_fired

FinishTypeAttribute ==
    /\ Returned("stabs_type_to_ast", "type_attribute")
    /\ ReturnIfErrorElse([ret.value EXCEPT !.size_bits = TopType.size_bits])
    /\ UNCHANGED guard_fired

LowerBuiltIn ==
    /\ AtCase("BUILTIN")
    /\ IF TopType.type_id # 16
       THEN Return(Failure("Unknown built-in type!"))
       ELSE Return(Success(BuiltIn("BOOL_8")))
    /\ UNCHANGED guard_fired

(***************************************************************************)
(* stabs_type_to_ast: STRUCT and UNION.                                    *)
(***************************************************************************)
StructOrUnion(is_struct, size_bits) ==
    [is_struct |-> is_struct, base_classes |-> <<>>, fields |-> <<>>,
     member_functions |-> <<>>] @@ [Node("STRUCT_OR_UNION") EXCEPT !.size_bits = size_bits]

LowerStructOrUnion ==
    /\ AtCaseOf({"STRUCT", "UNION"})
    /\ Continue([Top EXCEPT !.pc = "base_classes", !.i = 1,
                            !.node = StructOrUnion(TopType.descriptor = "STRUCT",
                                                   TopType.size * 8)])
    /\ UNCHANGED guard_fired

\* A plausible slip: the base class lowered without substitute_type_name.
BaseClassSubstituteNever(frame) == FALSE

\* The substitute_type_name argument of the call that lowers a base class.
BaseClassSubstitute(frame) == TRUE

\* The force_substitute argument of the call that lowers a base class.
BaseClassForceSubstitute(frame) == frame.force_substitute

CallBaseClass ==
    /\ At("stabs_type_to_ast", "base_classes")
    /\ Top.i <= Len(TopType.base_classes)
    /\ Call([Top EXCEPT !.pc = "base_class"],
            Frame("stabs_type_to_ast", TopType.base_classes[Top.i].type, Top.type,
                  Top.depth + 1, BaseClassSubstitute(Top), BaseClassForceSubstitute(Top)))
    /\ UNCHANGED guard_fired

FinishBaseClass ==
    /\ Returned("stabs_type_to_ast", "base_class")
    /\ IF ~ret.ok THEN Return(ret)
       ELSE LET stabs_base_class == TopType.base_classes[Top.i]
                base_class ==
                    set_access_specifier(
                        [ret.value EXCEPT !.is_base_class = TRUE,
                                          !.offset_bytes = stabs_base_class.offset],
                        stabs_field_visibility_to_access_specifier(stabs_base_class.visibility))
            IN  Continue([Top EXCEPT !.pc = "base_classes", !.i = Top.i + 1,
                                     !.node.base_classes = Append(@, base_class)])
    /\ UNCHANGED guard_fired

BeginFields ==
    /\ At("stabs_type_to_ast", "base_classes")
    /\ Top.i > Len(TopType.base_classes)
    /\ Continue([Top EXCEPT !.pc = "fields", !.i = 1])
    /\ UNCHANGED guard_fired

\* field_to_ast(field, type, state, depth): the frame holds the enclosing
\* struct as type and the position of the field as i.
CallFieldToAst ==
    /\ At("stabs_type_to_ast", "fields")
    /\ Top.i <= Len(TopType.fields)
    /\ Call([Top EXCEPT !.pc = "field"],
            [Frame("field_to_ast", Top.type, Top.type, Top.depth, FALSE, FALSE)
                EXCEPT !.i = Top.i])
    /\ UNCHANGED guard_fired

\* A plausible slip: the node of a field put in front of the others.
FinishFieldInFront ==
    /\ Returned("stabs_type_to_ast", "field")
    /\ IF ~ret.ok THEN Return(ret)
       ELSE Continue([Top EXCEPT !.pc = "fields", !.i = Top.i + 1,
                                 !.node.fields = <<ret.value>> \o @])
    /\ UNCHANGED guard_fired

FinishField ==
    /\ Returned("stabs_type_to_ast", "field")
    /\ IF ~ret.ok THEN Return(ret)
       ELSE Continue([Top EXCEPT !.pc = "fields", !.i = Top.i + 1,
                                 !.node.fields = Append(@, ret.value)])
    /\ UNCHANGED guard_fired

\* member_functions_to_ast(*stabs_struct_or_union, state, depth)
CallMemberFunctionsToAst ==
    /\ At("stabs_type_to_ast", "fields")
    /\ Top.i > Len(TopType.fields)
    /\ Call([Top EXCEPT !.pc = "member_functions"],
            Frame("member_functions_to_ast", Top.type, Top.type, Top.depth, FALSE, FALSE))
    /\ UNCHANGED guard_fired

FinishStructOrUnion ==
    /\ Returned("stabs_type_to_ast", "member_functions")
    /\ ReturnIfErrorElse([Top.node EXCEPT !.member_functions = ret.value])
    /\ UNCHANGED guard_fired

(***************************************************************************)
(* field_to_ast.                                                           *)
(***************************************************************************)
TopField == TopType.fields[Top.i]

\* The body of field_to_ast given the Result of detect_bitfield.
FieldToAstOn(is_bitfield) ==
    IF ~is_bitfield.ok THEN Return(is_bitfield)
    ELSE Call([Top EXCEPT !.pc = IF is_bitfield.value THEN "bitfield" ELSE "normal"],
              Frame("stabs_type_to_ast", TopField.type, Top.type, Top.depth + 1, TRUE, FALSE))

FieldToAst ==
    /\ At("field_to_ast", "entry")
    /\ FieldToAstOn(detect_bitfield(TopField, stabs_types))
    /\ UNCHANGED guard_fired

\* A plausible slip: the byte offset computed by an arithmetic shift, which
\* rounds toward minus infinity.
OffsetBytesShift(offset_bits) == offset_bits \div 8

\* field.offset_bits / 8
OffsetBytes(offset_bits) == CDiv(offset_bits, 8)

\* field.offset_bits % 8
BitfieldOffsetBits(offset_bits) == CRem(offset_bits, 8)

BitField(field, underlying_type) ==
    set_access_specifier(
        [underlying_type |-> underlying_type,
         bitfield_offset_bits |-> BitfieldOffsetBits(field.offset_bits)]
        @@ [Node("BITFIELD") EXCEPT
               !.name = IF field.name = <<" ">> THEN <<>> ELSE field.name,
               !.offset_bytes = OffsetBytes(field.offset_bits),
               !.size_bits = field.size_bits],
        stabs_field_visibility_to_access_specifier(field.visibility))

FinishBitField ==
    /\ Returned("field_to_ast", "bitfield")
    /\ ReturnIfErrorElse(BitField(TopField, ret.value))
    /\ UNCHANGED guard_fired

NormalField(field, node) ==
    LET is_vtable_pointer ==
            \/ StartsWith(field.name, <<"$", "v", "f">>)
            \/ StartsWith(field.name, <<"_", "v", "p", "t", "r", "$">>)
            \/ StartsWith(field.name, <<"_", "v", "p", "t", "r", ".">>)
    IN  set_access_specifier(
            [node EXCEPT
                !.name = field.name,
                !.offset_bytes = OffsetBytes(field.offset_bits),
                !.size_bits = field.size_bits,
                !.is_vtable_pointer = IF is_vtable_pointer THEN TRUE ELSE @,
                !.storage_class = IF field.is_static THEN "STATIC" ELSE @],
            stabs_field_visibility_to_access_specifier(field.visibility))

FinishNormalField ==
    /\ Returned("field_to_ast", "normal")
    /\ ReturnIfErrorElse(NormalField(TopField, ret.value))
    /\ UNCHANGED guard_fired

(***************************************************************************)
(* member_functions_to_ast.  The frame holds the struct as type, the       *)
(* vector member_functions as node, the position of the function set as i  *)
(* and the position of the overload as j.                                  *)
(***************************************************************************)
\* A plausible slip: the name of the type kept with its template arguments.
TypeNameWithTemplateArgs(type) == IF type.name.has_value THEN type.name.value ELSE <<>>

TypeNameNoTemplateArgs(type) == IF type.name.has_value THEN NoTemplateArgs(type.name.value) ELSE <<>>

\* The first loop, made under NO_GENERATED_MEMBER_FUNCTIONS: no function
\* or method among the overloads is other than special.
OnlySpecialFunctions(type, arena) ==
    \A s \in 1..Len(type.member_functions) :
        \A o \in 1..Len(type.member_functions[s].overloads) :
            LET function_set == type.member_functions[s]
                func_type == arena[function_set.overloads[o].type]
                parameter_count ==
                    IF func_type.descriptor = "METHOD" THEN Len(func_type.parameter_types) ELSE 0
                is_special ==
                    \/ function_set.name = STR_as
                    \/ function_set.name = STR_operator_assign
                    \/ StartsWith(function_set.name, <<"$">>)
                    \/ /\ function_set.name = TypeNameNoTemplateArgs(type)
                       /\ parameter_count = 0
            IN  func_type.descriptor \in {"FUNCTION", "METHOD"} => is_special

MemberFunctionsToAst ==
    /\ At("member_functions_to_ast", "entry")
    /\ IF NO_MEMBER_FUNCTIONS \in parser_flags
       THEN Return(Success(<<>>))
       ELSE IF /\ NO_GENERATED_MEMBER_FUNCTIONS \in parser_flags
               /\ OnlySpecialFunctions(TopType, stabs_types)
       THEN Return(Success(<<>>))
       ELSE Continue([Top EXCEPT !.pc = "function_sets", !.node = <<>>, !.i = 1,
                                 !.only_special_functions = TRUE])
    /\ UNCHANGED guard_fired

TopInfo ==
    check_member_function(TopType.member_functions[Top.i].name,
                          TypeNameNoTemplateArgs(TopType), demangler)

BeginFunctionSet ==
    /\ At("member_functions_to_ast", "function_sets")
    /\ Top.i <= Len(TopType.member_functions)
    /\ Continue([Top EXCEPT !.pc = "overloads", !.j = 1,
                            !.only_special_functions = @ /\ TopInfo.is_special_member_function])
    /\ UNCHANGED guard_fired

CallOverload ==
    /\ At("member_functions_to_ast", "overloads")
    /\ Top.j <= Len(TopType.member_functions[Top.i].overloads)
    /\ Call([Top EXCEPT !.pc = "overload"],
            Frame("stabs_type_to_ast", TopType.member_functions[Top.i].overloads[Top.j].type,
                  Top.type, Top.depth + 1, TRUE, TRUE))
    /\ UNCHANGED guard_fired

\* The statements applied to the node of an overload.
MemberFunctionNode(node, info, stabs_func) ==
    LET marked ==
            set_access_specifier(
                [node EXCEPT
                    !.is_constructor_or_destructor = info.is_constructor_or_destructor,
                    !.is_special_member_function = info.is_special_member_function,
                    !.is_operator_member_function = info.is_operator_member_function,
                    !.name = info.name],
                stabs_field_visibility_to_access_specifier(stabs_func.visibility))
    IN  IF marked.descriptor = "FUNCTION"
        THEN [marked EXCEPT !.modifier = stabs_func.modifier,
                            !.vtable_index = stabs_func.vtable_index]
        ELSE marked

FinishOverload ==
    /\ Returned("member_functions_to_ast", "overload")
    /\ IF ~ret.ok THEN Return(ret)
       ELSE Continue([Top EXCEPT
                !.pc = "overloads", !.j = Top.j + 1,
                !.node = Append(@, MemberFunctionNode(ret.value, TopInfo,
                                    TopType.member_functions[Top.i].overloads[Top.j]))])
    /\ UNCHANGED guard_fired

EndFunctionSet ==
    /\ At("member_functions_to_ast", "overloads")
    /\ Top.j > Len(TopType.member_functions[Top.i].overloads)
    /\ Continue([Top EXCEPT !.pc = "function_sets", !.i = Top.i + 1])
    /\ UNCHANGED guard_fired

\* A plausible slip: the functions returned whatever the sets are.
FinishMemberFunctionsAll ==
    /\ At("member_functions_to_ast", "function_sets")
    /\ Top.i > Len(TopType.member_functions)
    /\ Return(Success(Top.node))
    /\ UNCHANGED guard_fired

FinishMemberFunctions ==
    /\ At("member_functions_to_ast", "function_sets")
    /\ Top.i > Len(TopType.member_functions)
    /\ IF Top.only_special_functions /\ NO_GENERATED_MEMBER_FUNCTIONS \in parser_flags
       THEN Return(Success(<<>>))
       ELSE Return(Success(Top.node))
    /\ UNCHANGED guard_fired

(***************************************************************************)
(* stabs_type_to_ast: METHOD and POINTER_TO_DATA_MEMBER.                   *)
(***************************************************************************)
LowerMethod ==
    /\ AtCase("METHOD")
    /\ CallNested("method_return", Function(NullNode, NullOpt), TopType.return_type, TRUE, TRUE)
    /\ UNCHANGED guard_fired

FinishMethodReturn ==
    /\ Returned("stabs_type_to_ast", "method_return")
    /\ IF ~ret.ok THEN Return(ret)
       ELSE Continue([Top EXCEPT !.pc = "parameters", !.i = 1,
                                 !.node.return_type = ret.value, !.node.parameters = Some(<<>>)])
    /\ UNCHANGED guard_fired

CallMethodParameter ==
    /\ At("stabs_type_to_ast", "parameters")
    /\ Top.i <= Len(TopType.parameter_types)
    /\ CallNested("parameter", Top.node, TopType.parameter_types[Top.i], TRUE, TRUE)
    /\ UNCHANGED guard_fired

FinishMethodParameter ==
    /\ Returned("stabs_type_to_ast", "parameter")
    /\ IF ~ret.ok THEN Return(ret)
       ELSE Continue([Top EXCEPT !.pc = "parameters", !.i = Top.i + 1,
                                 !.node.parameters.value = Append(@, ret.value)])
    /\ UNCHANGED guard_fired

FinishMethod ==
    /\ At("stabs_type_to_ast", "parameters")
    /\ Top.i > Len(TopType.parameter_types)
    /\ Return(Success(Top.node))
    /\ UNCHANGED guard_fired

PointerToDataMember ==
    [class_type |-> NullNode, member_type |-> NullNode] @@ Node("POINTER_TO_DATA_MEMBER")

LowerPointerToDataMember ==
    /\ AtCase("POINTER_TO_DATA_MEMBER")
    /\ CallNested("class_type", PointerToDataMember, TopType.class_type, TRUE, TRUE)
    /\ UNCHANGED guard_fired

FinishClassType ==
    /\ Returned("stabs_type_to_ast", "class_type")
    /\ IF ~ret.ok THEN Return(ret)
       ELSE CallNested("member_type", [Top.node EXCEPT !.class_type = ret.value],
                       TopType.member_type, TRUE, TRUE)
    /\ UNCHANGED guard_fired

FinishMemberType ==
    /\ Returned("stabs_type_to_ast", "member_type")
    /\ ReturnIfErrorElse([Top.node EXCEPT !.member_type = ret.value])
    /\ UNCHANGED guard_fired

(***************************************************************************)
(* The inputs the lowering is run on.  A scenario is an input with the     *)
(* parser flags and the demangler of the state.                            *)
(***************************************************************************)
MaxChain == 1

MaxOffsetBits == 9

MaxIndex == 3

Scenario(inp, flags, demangler_functions) ==
    [input |-> inp, parser_flags |-> flags, demangler |-> demangler_functions]

RECURSIVE Chains(_)
Chains(n) ==
    IF n = 0 THEN {<<>>}
    ELSE LET shorter == Chains(n - 1)
         IN  shorter \cup {<<w>> \o c : w \in Wrappers, c \in {d \in shorter : Len(d) = n - 1}}

\* The chains of one or two descriptors of a set, and the empty chain.
Chains2(descriptors) ==
    {<<>>} \cup {<<w>> : w \in descriptors} \cup {<<w, v>> : w \in descriptors, v \in descriptors}

\* Every chain of at most MaxChain descriptors over every leaf that ends
\* the lowering, lenient and strict.
ChainScenarios ==
    {Scenario(Input(c, leaf), flags, "absent") :
        c \in Chains(MaxChain), leaf \in Leaves \ CyclicLeaves,
        flags \in {{}, {STRICT_PARSING}}}

\* Graphs with a cycle: through a type reference, the qualifiers, a pointer,
\* body-less references, a field, a base class and the signature of a
\* method; with a named root the name cuts the cycle.
CyclicInputs ==
    {Input(c, "RING") :
        c \in {<<>>, <<"TYPE_REFERENCE">>, <<"VOLATILE_QUALIFIER">>, <<"CONST_QUALIFIER">>,
               <<"STRUCT_FIELD">>, <<"STRUCT_BASE">>, <<"STRUCT_METHOD">>,
               <<"METHOD_RETURN">>, <<"METHOD_PARAMETER">>, <<"ARRAY">>}}
    \cup {Input(<<>>, "SELF"), Input(<<"BODYLESS">>, "SELF"), Input(<<"CONST_QUALIFIER">>, "SELF")}
    \cup {[Input(c, "RING") EXCEPT !.root_name = Some(STR_Foo)] :
              c \in {<<"STRUCT_FIELD">>, <<"CONST_QUALIFIER">>}}

CyclicScenarios ==
    {Scenario(inp, flags, "absent") : inp \in CyclicInputs, flags \in {{}, {STRICT_PARSING}}}

FieldLeaves ==
    {"RANGE_SIGNED", "RANGE_UNSIGNED", "CROSS_REFERENCE_ENUM", "CROSS_REFERENCE_STRUCT",
     "BUILTIN_BOOL", "ENUM"}

\* Fields of every offset from -MaxOffsetBits to MaxOffsetBits, and fields
\* whose type is reached through references and qualifiers.
FieldInputs ==
    {[Input(<<"STRUCT_FIELD">>, leaf) EXCEPT
          !.size_bits = size_bits, !.offset_bits = offset_bits, !.is_static = is_static] :
        leaf \in FieldLeaves, size_bits \in {3, 8, 32},
        offset_bits \in (-MaxOffsetBits)..MaxOffsetBits, is_static \in BOOLEAN}
    \cup
    {[Input(<<"STRUCT_FIELD", w>>, leaf) EXCEPT
          !.size_bits = size_bits, !.offset_bits = 5, !.is_static = is_static] :
        w \in {"TYPE_REFERENCE", "CONST_QUALIFIER", "VOLATILE_QUALIFIER", "BODYLESS",
               "TYPE_ATTRIBUTE"},
        leaf \in FieldLeaves, size_bits \in {3, 8, 16, 32}, is_static \in BOOLEAN}

FieldScenarios == {Scenario(inp, {}, "absent") : inp \in FieldInputs}

\* n in decimal.
RECURSIVE Decimal(_)
Decimal(n) ==
    IF n < 0 THEN <<"-">> \o Decimal(-n)
    ELSE IF n < 10 THEN <<DigitChars[n + 1]>>
    ELSE Decimal(n \div 10) \o <<DigitChars[(n % 10) + 1]>>

ArrayLows == {<<"0">>, <<"0", "0">>, <<"-", "0">>, <<" ", "0">>, <<"0", "x">>,
              <<"1">>, <<"-", "1">>, <<"x">>, <<>>}

ArrayHighs ==
    {Decimal(n) : n \in (-MaxIndex)..MaxIndex}
    \cup {<<"9">>, STR_U32_MAX, <<"0", "1", "0">>, <<" ", "7">>, <<"7", "x">>, <<"x">>, <<>>}

ArrayInputs ==
    {[Input(<<"ARRAY">>, "RANGE_SIGNED") EXCEPT !.low = low, !.high = high] :
        low \in ArrayLows, high \in ArrayHighs}

ArrayScenarios == {Scenario(inp, {}, "absent") : inp \in ArrayInputs}

STR_Foo_int == <<"F", "o", "o", "<", "i", "n", "t", ">">>

SetNames ==
    {<<"f">>, STR_Foo, <<"~">> \o STR_Foo, <<"$", "_", "0">>, STR_as, STR_pl,
     STR_operator_assign, STR_ct, STR_dt, <<"~">>, <<"$">>}

MemberFunctionInputs ==
    {[Input(c, "RANGE_SIGNED") EXCEPT !.root_name = root_name, !.set_name = set_name] :
        c \in {<<"STRUCT_METHOD">>, <<"STRUCT_METHOD", "FUNCTION">>,
               <<"STRUCT_METHOD", "METHOD_RETURN">>, <<"STRUCT_METHOD", "METHOD_PARAMETER">>},
        root_name \in {NullOpt, Some(STR_Foo), Some(STR_Foo_int)}, set_name \in SetNames}

MemberFunctionScenarios ==
    {Scenario(inp, flags, demangler_functions) :
        inp \in MemberFunctionInputs,
        flags \in SUBSET {NO_MEMBER_FUNCTIONS, NO_GENERATED_MEMBER_FUNCTIONS},
        demangler_functions \in {"absent", "opname"}}

\* Chains of one or two qualifiers, named or not, around inner types that
\* are named or not, lowered with every pair of substitution flags.
QualifierChains == {c \in Chains2({"CONST_QUALIFIER", "VOLATILE_QUALIFIER"}) : c # <<>>}

QualifierInputs ==
    {[Input(c, leaf) EXCEPT !.root_name = root_name,
                            !.substitute_type_name = substitute_type_name,
                            !.force_substitute = force_substitute] :
        c \in QualifierChains,
        leaf \in {"RANGE_SIGNED", "RANGE_NAMED", "CROSS_REFERENCE_STRUCT", "ENUM", "MISSING"},
        root_name \in {NullOpt, Some(STR_Foo)},
        substitute_type_name \in BOOLEAN, force_substitute \in BOOLEAN}

QualifierScenarios == {Scenario(inp, {}, "absent") : inp \in QualifierInputs}

\* Structs and enums with their members in every order.
OrderedInputs ==
    {[Input(c, leaf) EXCEPT !.order = order] :
        c \in {<<>>, <<"POINTER">>}, leaf \in {"STRUCT_ORDERED", "ENUM_ORDERED"},
        order \in {o \in [1..3 -> 1..3] : \A i, j \in 1..3 : o[i] = o[j] => i = j}}

OrderedScenarios ==
    {Scenario(inp, flags, "absent") :
        inp \in OrderedInputs, flags \in {{}, {NO_GENERATED_MEMBER_FUNCTIONS}}}

\* Structs of two function sets under every name of the first and three
\* names of the second.
FunctionSetInputs ==
    {[Input(<<>>, "STRUCT_SETS") EXCEPT !.root_name = root_name, !.set_name = set_name,
                                         !.other_set_name = other_set_name] :
        root_name \in {NullOpt, Some(STR_Foo), Some(STR_Foo_int)},
        set_name \in SetNames, other_set_name \in {<<"f">>, STR_dt, STR_as}}

FunctionSetScenarios ==
    {Scenario(inp, flags, demangler_functions) :
        inp \in FunctionSetInputs,
        flags \in SUBSET {NO_MEMBER_FUNCTIONS, NO_GENERATED_MEMBER_FUNCTIONS},
        demangler_functions \in {"absent", "opname"}}

\* Calls made at the depths around the limit, with types that are named,
\* without a body or neither, strict and not.
DepthInputs ==
    {[Input(c, leaf) EXCEPT !.root_name = root_name, !.depth = depth,
                            !.substitute_type_name = substitute_type_name] :
        c \in {<<>>, <<"POINTER">>},
        leaf \in {"RANGE_SIGNED", "RANGE_NAMED", "ENUM", "MISSING", "ANONYMOUS"},
        root_name \in {NullOpt, Some(STR_Foo)},
        depth \in (CallDepthLimit - 1)..(CallDepthLimit + 2),
        substitute_type_name \in BOOLEAN}

DepthScenarios ==
    {Scenario(inp, flags, "absent") : inp \in DepthInputs, flags \in {{}, {STRICT_PARSING}}}

\* Types of every kind of name, root types and others, lowered at depth 0
\* and 1 with and without substitute_type_name.
TypeNames == {<<>>, <<" ">>, STR_void, STR_builtin_va_list, STR_Foo}

NameInputs ==
    {[Input(c, leaf) EXCEPT !.root_name = root_name, !.root_is_root = root_is_root,
                            !.depth = depth, !.substitute_type_name = substitute_type_name] :
        c \in {<<>>, <<"POINTER">>},
        leaf \in {"RANGE_SIGNED", "BUILTIN_BOOL", "ENUM", "CROSS_REFERENCE_STRUCT", "MISSING"},
        root_name \in {NullOpt} \cup {Some(name) : name \in TypeNames},
        root_is_root \in BOOLEAN, depth \in {0, 1}, substitute_type_name \in BOOLEAN}

NameScenarios == {Scenario(inp, {}, "absent") : inp \in NameInputs}

\* Structs with a member function whose type, return type or parameter
\* refers back to the struct by its number, lowered at depth 0 and at the
\* depths that bring the reference up to the limit.
BackInputs ==
    {[Input(c, "BACK") EXCEPT !.root_name = root_name, !.depth = depth] :
        c \in {<<"STRUCT_METHOD">>, <<"STRUCT_METHOD", "POINTER">>,
               <<"STRUCT_METHOD", "METHOD_RETURN">>, <<"STRUCT_METHOD", "METHOD_PARAMETER">>},
        root_name \in {NullOpt, Some(STR_Foo)},
        depth \in {0, CallDepthLimit - 2, CallDepthLimit - 1, CallDepthLimit}}

BackScenarios ==
    {Scenario(inp, flags, "absent") : inp \in BackInputs, flags \in {{}, {STRICT_PARSING}}}

\* Type references, numbered and anonymous, to types that are numbered,
\* anonymous, missing or the reference itself, alone and as a base class,
\* lowered with every pair of substitution flags.
ReferenceInputs ==
    {[Input(c, leaf) EXCEPT !.substitute_type_name = substitute_type_name,
                            !.force_substitute = force_substitute] :
        c \in {<<>>, <<"TYPE_REFERENCE">>, <<"ANONYMOUS_REFERENCE">>,
               <<"STRUCT_BASE", "TYPE_REFERENCE">>},
        leaf \in {"RANGE_NAMED", "ENUM", "VOID", "ANONYMOUS", "MISSING"},
        substitute_type_name \in BOOLEAN, force_substitute \in BOOLEAN}

ReferenceScenarios ==
    {Scenario(inp, flags, "absent") : inp \in ReferenceInputs, flags \in {{}, {STRICT_PARSING}}}

\* The descriptors the loop of detect_bitfield follows, in turn.
Link(k) ==
    CASE k % 4 = 1 -> "TYPE_REFERENCE"
      [] k % 4 = 2 -> "CONST_QUALIFIER"
      [] k % 4 = 3 -> "BODYLESS"
      [] OTHER -> "VOLATILE_QUALIFIER"

\* Fields whose type is reached through a chain of as many links as the
\* loop of detect_bitfield follows, or a few less or one more, and fields
\* whose type is a cycle of a qualifier and a body-less reference or a
\* body-less type the index maps to itself.
ResolutionInputs ==
    {[Input(<<"STRUCT_FIELD">> \o [k \in 1..n |-> Link(k)], leaf) EXCEPT
          !.size_bits = size_bits] :
        n \in (ResolveLimit - 2)..(ResolveLimit + 1),
        leaf \in {"RANGE_SIGNED", "BUILTIN_BOOL"}, size_bits \in {3, 8, 32}}
    \cup {Input(<<"STRUCT_FIELD", "CONST_QUALIFIER">>, "PARENT"),
          Input(<<"STRUCT_FIELD", "VOLATILE_QUALIFIER">>, "PARENT"),
          Input(<<"STRUCT_FIELD">>, "SELF")}

ResolutionScenarios == {Scenario(inp, {}, "absent") : inp \in ResolutionInputs}

Scenarios ==
    ChainScenarios \cup CyclicScenarios \cup FieldScenarios \cup ArrayScenarios
        \cup MemberFunctionScenarios \cup QualifierScenarios
        \cup OrderedScenarios \cup FunctionSetScenarios
        \cup DepthScenarios \cup NameScenarios
        \cup BackScenarios \cup ReferenceScenarios
        \cup ResolutionScenarios

\* stabs_type_to_ast(type, nullptr, state, depth, substitute_type_name,
\* force_substitute) for the arguments of the input.
Init ==
    /\ \E scenario \in Scenarios :
          /\ input = scenario.input
          /\ stabs_types = Arena(scenario.input)
          /\ parser_flags = scenario.parser_flags
          /\ demangler = scenario.demangler
    /\ stack = <<Frame("stabs_type_to_ast", Aux.root, 0, input.depth,
                      input.substitute_type_name, input.force_substitute)>>
    /\ ret = NoResult
    /\ status = "running"
    /\ guard_fired = FALSE
    /\ RangeIdle
    /\ SymtabIdle
    /\ TypesIdle
    /\ PathIdle

Next ==
    \/ DepthGuard \/ SubstituteTypeName \/ SubstituteThis \/ LookupType \/ FinishLookup
    \/ LowerTypeReference \/ FinishTypeReference
    \/ LowerArray \/ FinishArray
    \/ LowerEnum
    \/ LowerFunction \/ FinishFunction
    \/ LowerVolatileQualifier \/ FinishVolatileQualifier
    \/ LowerConstQualifier \/ FinishConstQualifier
    \/ LowerRange
    \/ LowerStructOrUnion \/ CallBaseClass \/ FinishBaseClass \/ BeginFields
    \/ CallFieldToAst \/ FinishField \/ CallMemberFunctionsToAst \/ FinishStructOrUnion
    \/ LowerCrossReference \/ LowerFloatingPointBuiltIn
    \/ LowerMethod \/ FinishMethodReturn \/ CallMethodParameter \/ FinishMethodParameter
    \/ FinishMethod
    \/ LowerPointer \/ FinishPointer \/ LowerReference \/ FinishReference
    \/ LowerTypeAttribute \/ FinishTypeAttribute
    \/ LowerPointerToDataMember \/ FinishClassType \/ FinishMemberType
    \/ LowerBuiltIn
    \/ FieldToAst \/ FinishBitField \/ FinishNormalField
    \/ MemberFunctionsToAst \/ BeginFunctionSet \/ CallOverload \/ FinishOverload
    \/ EndFunctionSet \/ FinishMemberFunctions

Spec == Init /\ [][Next]_vars

(***************************************************************************)
(* The ranges classify_range is applied to: every string of the tables,    *)
(* the bounds of the integer rows in decimal and in octal, with and        *)
(* without a sign, strings strtoll converts in part or not at all, and     *)
(* every string of at most MaxRangeLen characters of RangeAlphabet.        *)
(***************************************************************************)
MaxRangeLen == 2

RangeAlphabet == {"0", "1", "2", "7", "-"}

RECURSIVE StringsUpTo(_, _)
StringsUpTo(alphabet, n) ==
    IF n = 0 THEN {<<>>}
    ELSE LET shorter == StringsUpTo(alphabet, n - 1)
         IN  shorter \cup {Append(s, c) : s \in {t \in shorter : Len(t) = n - 1}, c \in alphabet}

TableStrings ==
    {strings[i].low : i \in 1..Len(strings)} \cup {strings[i].high : i \in 1..Len(strings)}

RowNumerals == {
    <<"2", "5", "5">>, <<"0", "3", "7", "7">>, <<"1", "2", "7">>, <<"0", "1", "7", "7">>,
    <<"1", "2", "8">>, <<"-", "1", "2", "8">>, <<"0", "2", "0", "0">>, <<"-", "0", "2", "0", "0">>,
    <<"6", "5", "5", "3", "5">>, <<"0", "1", "7", "7", "7", "7", "7">>,
    <<"3", "2", "7", "6", "7">>, <<"0", "7", "7", "7", "7", "7">>,
    <<"3", "2", "7", "6", "8">>, <<"-", "3", "2", "7", "6", "8">>, <<"0", "1">> \o Rep("0", 5),
    <<"4", "2", "9", "4", "9", "6", "7", "2", "9", "5">>, <<"0", "3">> \o Rep("7", 10),
    <<"4", "2", "9", "4", "9", "6", "7", "2", "9", "6">>,
    <<"2", "1", "4", "7", "4", "8", "3", "6", "4", "7">>, <<"0", "1">> \o Rep("7", 10),
    <<"2", "1", "4", "7", "4", "8", "3", "6", "4", "8">>,
    <<"-", "2", "1", "4", "7", "4", "8", "3", "6", "4", "8">>, <<"0", "2">> \o Rep("0", 10),
    <<"0", "0", "0", "2", "5", "5">>, <<"-", "0">>, <<"0", "0">> }

OddStrings == {
    <<>>, <<"x">>, <<"-">>, <<"+", "0">>, <<" ", "0">>, <<" ", "2", "5", "5">>, <<"+", "1", "2", "7">>,
    <<"2", "5", "5", "x">>, <<"0", "8">>, <<"0", "3", "7", "7", "8">>, <<"0", "x", "f", "f">>,
    <<"-", "x">>, <<"1", "2", "7", " ">>, <<"-", "-", "1">>,
    <<"9">> \o Digits9223372036854775807, <<"-", "9">> \o Digits9223372036854775807,
    <<"-">> \o Digits9223372036854775808, Digits9223372036854775807, Digits9223372036854775808,
    <<"0", "1">> \o Rep("7", 21), <<"0", "1">> \o Rep("0", 21) }

RangeStrings ==
    TableStrings \cup RowNumerals \cup OddStrings \cup StringsUpTo(RangeAlphabet, MaxRangeLen)

RangeInit ==
    /\ LoweringIdle
    /\ SymtabIdle
    /\ TypesIdle
    /\ PathIdle
    /\ range_pc = "input"
    /\ range_low \in RangeStrings
    /\ range_high \in RangeStrings
    /\ range_result = None

\* The RANGE case of stabs_type_to_ast applied to one range.
ClassifyRange ==
    /\ range_pc = "input"
    /\ range_result' = classify_range(range_low, range_high)
    /\ range_pc' = "done"
    /\ UNCHANGED <<range_low, range_high, lowering_vars, symtab_vars, types_vars, path_vars>>

RangeNext == ClassifyRange

SpecRange == RangeInit /\ [][RangeNext]_vars

(***************************************************************************)
(* parse_symbol_table.  The image is the bytes strings are read from and   *)
(* the records get_packed finds in it: the symbolic header, the file       *)
(* descriptors in the order of their table and the local symbols in the    *)
(* order of theirs.  A record that lies past the end of the image is       *)
(* absent from its table.                                                  *)
(***************************************************************************)
\* A u32: two 16-bit limbs, least significant first.  U32(x) converts an
\* integer of 32 bits, which is negative when its top bit is set.
U32(x) == <<x % Limb, (x \div Limb) % Limb>>

U32Add(a, b) ==
    <<(a[1] + b[1]) % Limb, (a[2] + b[2] + ((a[1] + b[1]) \div Limb)) % Limb>>

\* hdrr.magic of a symbolic header.
Magic == 28681

SymbolicHeader(magic, local_strings_offset, file_descriptor_count) ==
    [magic |-> magic, local_strings_offset |-> local_strings_offset,
     file_descriptor_count |-> file_descriptor_count]

FileDescriptor(file_path_string_offset, strings_offset, isym_base, symbol_count, f_big_endian) ==
    [file_path_string_offset |-> file_path_string_offset, strings_offset |-> strings_offset,
     isym_base |-> isym_base, symbol_count |-> symbol_count, f_big_endian |-> f_big_endian]

LocalSymbol(iss, value, st, sc, index) ==
    [iss |-> iss, value |-> value, st |-> st, sc |-> sc, index |-> index]

Image(bytes, header, file_descriptors, local_symbols) ==
    [bytes |-> bytes, header |-> header, file_descriptors |-> file_descriptors,
     local_symbols |-> local_symbols]

\* The characters from the 0-based offset up to the next NUL.
RECURSIVE StringFrom(_, _)
StringFrom(bytes, offset) ==
    IF bytes[offset + 1] = "NUL" THEN <<>>
    ELSE <<bytes[offset + 1]>> \o StringFrom(bytes, offset + 1)

HasNulFrom(bytes, offset) == \E k \in (offset + 1)..Len(bytes) : bytes[k] = "NUL"

\* What the memory in front of the image may hold.
Garbage == {<<>>, <<"?">>}

\* get_string(bytes, offset) for the s32 offset converted to u64: the
\* outcomes it can have.  A negative offset becomes an offset near 2^64, the
\* pointer wraps to the front of the image and memory outside it is read,
\* which is undefined: the process faults or a string is found there.
get_string(bytes, offset) ==
    IF offset < 0
    THEN {[ok |-> FALSE, error |-> "segfault"]} \cup {Success(g) : g \in Garbage}
    ELSE IF offset < Len(bytes) /\ HasNulFrom(bytes, offset)
    THEN {Success(StringFrom(bytes, offset))}
    ELSE {Failure("Unexpected end of buffer while reading string.")}

\* get_c_string(bytes, offset) for a u32 offset.
get_c_string(bytes, offset) ==
    IF offset[2] = 0 /\ offset[1] < Len(bytes) /\ HasNulFrom(bytes, offset[1])
    THEN Success(StringFrom(bytes, offset[1]))
    ELSE Failure("Unexpected end of buffer while reading string.")

\* get_packed<T>(image, offset, subject) on a table: the record at index,
\* counted from 0, or a failure when it lies past the end of the image.
get_packed(table, index, subject) ==
    IF 0 <= index /\ index < Len(table) THEN Success(table[index + 1]) ELSE Failure(subject)

\* A plausible slip: the window of the file left out of the offset.
SymbolStringOffsetNoWindow(hdrr, fd_header, sym_entry) ==
    U32Add(U32(hdrr.local_strings_offset), sym_entry.iss)

\* hdrr.local_strings_offset + fd_header.strings_offset + sym_entry.iss
SymbolStringOffset(hdrr, fd_header, sym_entry) ==
    U32Add(U32(hdrr.local_strings_offset + fd_header.strings_offset), sym_entry.iss)

\* hdrr.local_strings_offset + fd_header.strings_offset
\*     + fd_header.file_path_string_offset
RawPathOffset(hdrr, fd_header) ==
    hdrr.local_strings_offset + fd_header.strings_offset + fd_header.file_path_string_offset

ToLower(c) ==
    CASE c = "C" -> "c"
      [] c = "S" -> "s"
      [] OTHER -> c

EndsWith(s, suffix) ==
    Len(s) >= Len(suffix) /\ SubSeq(s, Len(s) - Len(suffix) + 1, Len(s)) = suffix

\* "Try to detect the source language."
DetectLanguage(raw_path) ==
    LET lower_name == [k \in 1..Len(raw_path) |-> ToLower(raw_path[k])]
    IN  IF EndsWith(lower_name, <<".", "c">>) THEN "C"
        ELSE IF \/ EndsWith(lower_name, <<".", "c", "p", "p">>)
                \/ EndsWith(lower_name, <<".", "c", "c">>)
                \/ EndsWith(lower_name, <<".", "c", "x", "x">>) THEN "CPP"
        ELSE IF \/ EndsWith(lower_name, <<".", "s">>)
                \/ EndsWith(lower_name, <<".", "a", "s", "m">>) THEN "ASSEMBLY"
        ELSE "UNKNOWN"

SymFileDescriptor(header, raw_path) ==
    [header |-> header, raw_path |-> raw_path, base_path |-> <<>>, full_path |-> NullOpt,
     detected_language |-> DetectLanguage(raw_path), symbols |-> <<>>]

Symbol(sym_entry, string) ==
    [string |-> string, value |-> sym_entry.value, storage_type |-> sym_entry.st,
     storage_class |-> sym_entry.sc, index |-> sym_entry.index]

\* The symbol appended to fd.symbols, then the test for the base path.
WithSymbol(fd, sym_entry, sym) ==
    LET symbols == Append(fd.symbols, sym)
        found ==
            /\ fd.base_path = <<>>
            /\ sym_entry.iss = U32(fd.header.file_path_string_offset)
            /\ sym.storage_type = "LABEL"
            /\ Len(symbols) > 2
            /\ symbols[Len(symbols) - 1].storage_type = "LABEL"
    IN  [fd EXCEPT !.symbols = symbols,
                   !.base_path = IF found THEN symbols[Len(symbols) - 1].string ELSE @]

Backslashes(path) == [k \in 1..Len(path) |-> IF path[k] = "\\" THEN "/" ELSE path[k]]

\* "Determine the full path."  fs::weakly_canonical of a relative path is
\* kept as the pair it is applied to.
FullPath(fd) ==
    LET base_path == Backslashes(fd.base_path)
        raw_path == Backslashes(fd.raw_path)
    IN  IF \/ base_path = <<>>
           \/ CharAt(raw_path, 0) = "/"
           \/ CharAt(raw_path, 1) = ":" /\ CharAt(raw_path, 2) = "/"
        THEN [weakly_canonical |-> FALSE, base_path |-> <<>>, raw_path |-> raw_path]
        ELSE [weakly_canonical |-> TRUE, base_path |-> base_path, raw_path |-> raw_path]

\* verify(condition, message) that fails, or a read that fails: the process
\* writes the message and exits.
Exit(message) ==
    /\ sym_pc' = "exited"
    /\ sym_error' = message
    /\ UNCHANGED <<image, sym_i, sym_j, sym_fd, symbol_table>>

\* A plausible slip: only the low byte of the magic compared.
MagicOkLowByte(hdrr) == hdrr.magic % 256 = Magic % 256

\* hdrr.magic == 0x7009
MagicOk(hdrr) == hdrr.magic = Magic

\* A plausible slip: the byte order of a file is not looked at.
LittleEndianUnchecked(fd_header) == TRUE

\* fd_header.f_big_endian == 0
LittleEndian(fd_header) == fd_header.f_big_endian = 0

\* const auto& hdrr = get_packed<SymbolicHeader>(...); verify(hdrr.magic == 0x7009, ...);
ReadSymbolicHeader ==
    /\ sym_pc = "header"
    /\ sym_reads' = Append(sym_reads, "MIPS debug section")
    /\ IF ~MagicOk(image.header)
       THEN Exit("Invalid symbolic header.")
       ELSE /\ sym_pc' = "files"
            /\ sym_i' = 0
            /\ UNCHANGED <<image, sym_error, sym_j, sym_fd, symbol_table>>
    /\ UNCHANGED <<range_vars, lowering_vars, types_vars, path_vars>>

\* The body of the loop over file descriptors up to the loop over symbols.
ReadFileDescriptor ==
    /\ sym_pc = "files"
    /\ sym_i < image.header.file_descriptor_count
    /\ sym_reads' = Append(sym_reads, "file descriptor")
    /\ LET fd_header == get_packed(image.file_descriptors, sym_i, "file descriptor")
       IN  IF ~fd_header.ok THEN Exit(fd_header.error)
           ELSE IF ~LittleEndian(fd_header.value)
           THEN Exit("Not little endian or bad file descriptor table.")
           ELSE \E raw_path \in get_string(image.bytes,
                                           RawPathOffset(image.header, fd_header.value)) :
                    IF raw_path.ok
                    THEN /\ sym_fd' = SymFileDescriptor(fd_header.value, raw_path.value)
                         /\ sym_j' = 0
                         /\ sym_pc' = "symbols"
                         /\ UNCHANGED <<image, sym_error, sym_i, symbol_table>>
                    ELSE IF raw_path.error = "segfault"
                    THEN /\ sym_pc' = "segfault"
                         /\ UNCHANGED <<image, sym_error, sym_i, sym_j, sym_fd, symbol_table>>
                    ELSE Exit(raw_path.error)
    /\ UNCHANGED <<range_vars, lowering_vars, types_vars, path_vars>>

\* The body of the loop "Read symbols."
ReadLocalSymbol ==
    /\ sym_pc = "symbols"
    /\ sym_j < sym_fd.header.symbol_count
    /\ sym_reads' = Append(sym_reads, "local symbol")
    /\ LET sym_entry == get_packed(image.local_symbols, sym_fd.header.isym_base + sym_j,
                                   "local symbol")
       IN  IF ~sym_entry.ok THEN Exit(sym_entry.error)
           ELSE LET string == get_c_string(image.bytes,
                                  SymbolStringOffset(image.header, sym_fd.header, sym_entry.value))
                IN  IF ~string.ok THEN Exit(string.error)
                    ELSE /\ sym_fd' = WithSymbol(sym_fd, sym_entry.value,
                                                 Symbol(sym_entry.value, string.value))
                         /\ sym_j' = sym_j + 1
                         /\ UNCHANGED <<image, sym_pc, sym_error, sym_i, symbol_table>>
    /\ UNCHANGED <<range_vars, lowering_vars, types_vars, path_vars>>

\* The rest of the body of the loop over file descriptors.
FinishFileDescriptor ==
    /\ sym_pc = "symbols"
    /\ sym_j >= sym_fd.header.symbol_count
    /\ symbol_table' = Append(symbol_table, [sym_fd EXCEPT !.full_path = Some(FullPath(sym_fd))])
    /\ sym_i' = sym_i + 1
    /\ sym_pc' = "files"
    /\ UNCHANGED <<image, sym_error, sym_j, sym_fd, sym_reads>>
    /\ UNCHANGED <<range_vars, lowering_vars, types_vars, path_vars>>

\* return symbol_table;
ReturnSymbolTable ==
    /\ sym_pc = "files"
    /\ sym_i >= image.header.file_descriptor_count
    /\ sym_pc' = "returned"
    /\ UNCHANGED <<image, sym_error, sym_i, sym_j, sym_fd, symbol_table, sym_reads>>
    /\ UNCHANGED <<range_vars, lowering_vars, types_vars, path_vars>>

(***************************************************************************)
(* The images parse_symbol_table is run on.                                *)
(***************************************************************************)
MaxImage == 3

MaxFiles == 2

ImageAlphabet == {"NUL", "a"}

\* The string table "a.c", "/", "b".
PathBytes == <<"a", ".", "c", "NUL", "/", "NUL", "b", "NUL">>

\* A file descriptor of PathBytes with no symbols.
PlainFile(f_big_endian) == FileDescriptor(0, 0, 0, 0, f_big_endian)

RECURSIVE SeqsUpTo(_, _)
SeqsUpTo(elements, n) ==
    IF n = 0 THEN {<<>>}
    ELSE LET shorter == SeqsUpTo(elements, n - 1)
         IN  shorter \cup {Append(s, e) : s \in {t \in shorter : Len(t) = n - 1}, e \in elements}

\* Headers of every magic over tables of every kind.
MagicImages ==
    {Image(bytes, SymbolicHeader(magic, local_strings_offset, Len(files) + extra), files,
           <<LocalSymbol(U32(0), 0, "LABEL", "TEXT", 0)>>) :
        bytes \in {PathBytes, <<>>},
        magic \in {Magic, 0, Magic - 1, Magic + 1, -Magic, 9, 112},
        local_strings_offset \in {0, -1},
        extra \in {0, 1},
        files \in SeqsUpTo({PlainFile(0), PlainFile(1), FileDescriptor(4, 0, 0, 1, 0)}, MaxFiles)}

\* The files of a section in every arrangement of their byte order bits.
EndianImages ==
    {Image(PathBytes, SymbolicHeader(Magic, 0, Len(files)), files,
           <<LocalSymbol(U32(0), 0, "LABEL", "TEXT", 0), LocalSymbol(U32(4), 0, "LABEL", "TEXT", 0)>>) :
        files \in SeqsUpTo({FileDescriptor(0, 0, 0, 2, 0), FileDescriptor(0, 0, 0, 2, 1),
                            FileDescriptor(4, 0, 1, 1, 0), FileDescriptor(4, 0, 1, 1, 1)},
                           MaxFiles)}

\* One file with one symbol over every image of at most MaxImage bytes,
\* with offsets that are negative, that wrap and that lie past the end.
StringImages ==
    {Image(bytes, SymbolicHeader(Magic, local_strings_offset, 1),
           <<FileDescriptor(file_path_string_offset, strings_offset, 0, 1, 0)>>,
           <<LocalSymbol(U32(iss), 0, "LABEL", "TEXT", 0)>>) :
        bytes \in SeqsUpTo(ImageAlphabet, MaxImage),
        local_strings_offset \in {-1, 0, 1},
        strings_offset \in {-1, 0, 1},
        file_path_string_offset \in {0, 1},
        iss \in {-2, -1, 0, 1, 2, 3}}

\* Files whose symbols lie past the end of the image, and files with the
\* symbols that name a base path.
TableImages ==
    {Image(PathBytes, SymbolicHeader(Magic, 0, 1),
           <<FileDescriptor(0, 0, isym_base, symbol_count, 0)>>,
           <<LocalSymbol(U32(6), 0, st, "TEXT", 0), LocalSymbol(U32(4), 0, "LABEL", "TEXT", 0),
             LocalSymbol(U32(0), 0, "LABEL", "TEXT", 0)>>) :
        isym_base \in {-1, 0, 1, 2}, symbol_count \in {-1, 0, 1, 2, 3, 4}, st \in {"LABEL", "NIL"}}

MaxLabels == 4

\* One file of MaxLabels symbols, each a label or not, whose string is the
\* path of the file, the empty string or "/".
LabelImages ==
    {Image(PathBytes, SymbolicHeader(Magic, 0, 1),
           <<FileDescriptor(0, 0, 0, MaxLabels, 0)>>,
           [k \in 1..MaxLabels |-> LocalSymbol(U32(iss[k]), 0, st[k], "TEXT", 0)]) :
        iss \in [1..MaxLabels -> {0, 3, 4}], st \in [1..MaxLabels -> {"LABEL", "NIL"}]}

SymtabImages ==
    MagicImages \cup EndianImages \cup StringImages \cup TableImages \cup LabelImages

SymtabInit ==
    /\ image \in SymtabImages
    /\ sym_pc = "header"
    /\ sym_error = ""
    /\ sym_i = 0
    /\ sym_j = 0
    /\ sym_fd = NullOpt
    /\ symbol_table = <<>>
    /\ sym_reads = <<>>
    /\ RangeIdle
    /\ LoweringIdle
    /\ TypesIdle
    /\ PathIdle

SymtabNext ==
    \/ ReadSymbolicHeader
    \/ ReadFileDescriptor
    \/ ReadLocalSymbol
    \/ FinishFileDescriptor
    \/ ReturnSymbolTable

SpecSymtab == SymtabInit /\ [][SymtabNext]_vars

(***************************************************************************)
(* print_types of the driver stdump.  A symbol is its storage type, its    *)
(* storage class and its string; the calls of parse_stabs_symbol are kept  *)
(* by their argument.                                                      *)
(***************************************************************************)
MaxSymbols == 3

TypesSymbol(storage_type, storage_class, string) ==
    [storage_type |-> storage_type, storage_class |-> storage_class, string |-> string]

\* The strings of the symbols of storage type NIL and storage class 0.
SymbolStrings ==
    {<<>>, <<"a">>, <<"b", "\\">>, <<"$">>, <<"$", "\\">>, <<"\\">>}

Symbols ==
    {TypesSymbol("NIL", 0, string) : string \in SymbolStrings}
        \cup {TypesSymbol("NIL", 1, <<"c">>), TypesSymbol("LABEL", 0, <<"d", "\\">>)}

RECURSIVE SymbolSeqs(_)
SymbolSeqs(n) ==
    IF n = 0 THEN {<<>>}
    ELSE SymbolSeqs(n - 1)
             \cup {Append(symbols, sym) : symbols \in {q \in SymbolSeqs(n - 1) : Len(q) = n - 1},
                                          sym \in Symbols}

\* The tables of one file, and those of two whose second holds one symbol.
SymbolTables ==
    {<<symbols>> : symbols \in SymbolSeqs(MaxSymbols)}
        \cup {<<symbols, <<sym>>>> : symbols \in SymbolSeqs(MaxSymbols - 1),
                                    sym \in {TypesSymbol("NIL", 0, <<"a">>)}}

TypesSym == types_files[types_i][types_j]

\* The head of the loop over the files: prefix is made anew for each.
BeginFile ==
    /\ types_pc = "file"
    /\ types_i < Len(types_files)
    /\ types_i' = types_i + 1
    /\ types_j' = 1
    /\ prefix' = <<>>
    /\ types_pc' = "symbol"
    /\ UNCHANGED <<types_files, parsed>>
    /\ UNCHANGED <<range_vars, lowering_vars, symtab_vars, path_vars>>

AtSymbol ==
    /\ types_pc = "symbol"
    /\ types_j <= Len(types_files[types_i])

IsNilSymbol(sym) == sym.storage_type = "NIL" /\ sym.storage_class = 0

NextSymbol ==
    /\ types_j' = types_j + 1
    /\ UNCHANGED <<types_files, types_pc, types_i>>
    /\ UNCHANGED <<range_vars, lowering_vars, symtab_vars, path_vars>>

\* A symbol of another storage type or class.
SkipSymbol ==
    /\ AtSymbol
    /\ ~IsNilSymbol(TypesSym)
    /\ NextSymbol
    /\ UNCHANGED <<prefix, parsed>>

\* sym.string.size() == 0
ClearPrefix ==
    /\ AtSymbol
    /\ IsNilSymbol(TypesSym)
    /\ TypesSym.string = <<>>
    /\ prefix' = <<>>
    /\ NextSymbol
    /\ UNCHANGED parsed

EndsWithBackslash(string) == string[Len(string)] = "\\"

\* The string ends with a backslash: the symbol goes on in the next string.
ExtendPrefix ==
    /\ AtSymbol
    /\ IsNilSymbol(TypesSym)
    /\ TypesSym.string # <<>>
    /\ EndsWithBackslash(TypesSym.string)
    /\ prefix' = prefix \o SubSeq(TypesSym.string, 1, Len(TypesSym.string) - 1)
    /\ NextSymbol
    /\ UNCHANGED parsed

full_symbol == prefix \o TypesSym.string

\* full_symbol[0] == '$': the continue leaves prefix as it is.
SkipDollarSymbol ==
    /\ AtSymbol
    /\ IsNilSymbol(TypesSym)
    /\ TypesSym.string # <<>>
    /\ ~EndsWithBackslash(TypesSym.string)
    /\ full_symbol[1] = "$"
    /\ NextSymbol
    /\ UNCHANGED <<prefix, parsed>>

ParseStabsSymbol ==
    /\ AtSymbol
    /\ IsNilSymbol(TypesSym)
    /\ TypesSym.string # <<>>
    /\ ~EndsWithBackslash(TypesSym.string)
    /\ full_symbol[1] # "$"
    /\ parsed' = Append(parsed, full_symbol)
    /\ prefix' = <<>>
    /\ NextSymbol

EndFile ==
    /\ types_pc = "symbol"
    /\ types_j > Len(types_files[types_i])
    /\ types_pc' = "file"
    /\ UNCHANGED <<types_files, types_i, types_j, prefix, parsed>>
    /\ UNCHANGED <<range_vars, lowering_vars, symtab_vars, path_vars>>

ReturnTypes ==
    /\ types_pc = "file"
    /\ types_i >= Len(types_files)
    /\ types_pc' = "returned"
    /\ UNCHANGED <<types_files, types_i, types_j, prefix, parsed>>
    /\ UNCHANGED <<range_vars, lowering_vars, symtab_vars, path_vars>>

TypesInit ==
    /\ types_files \in SymbolTables
    /\ types_pc = "file"
    /\ types_i = 0
    /\ types_j = 0
    /\ prefix = <<>>
    /\ parsed = <<>>
    /\ RangeIdle
    /\ LoweringIdle
    /\ SymtabIdle
    /\ PathIdle

TypesNext ==
    \/ BeginFile
    \/ SkipSymbol
    \/ ClearPrefix
    \/ ExtendPrefix
    \/ SkipDollarSymbol
    \/ ParseStabsSymbol
    \/ EndFile
    \/ ReturnTypes

SpecTypes == TypesInit /\ [][TypesNext]_vars

(***************************************************************************)
(* merge_paths and normalise_path.  The C string input is read through     *)
(* CharAt at positions counted from 0.                                     *)
(***************************************************************************)
MaxPathLen == 4

IsSeparator(c) == c = "/" \/ c = "\\"

\* isalpha and toupper over the letters of the paths.
IsAlpha(c) == c \in {"a", "c", "A", "C"}

ToUpper(c) == CASE c = "a" -> "A" [] c = "c" -> "C" [] OTHER -> c

guess_is_windows_path(path) ==
    LET separators == {i \in 1..Len(path) : IsSeparator(path[i])}
    IN  separators # {}
            /\ path[CHOOSE i \in separators : \A k \in separators : i <= k] = "\\"

\* The position of the first character from i on that is no separator.
RECURSIVE SkipSeparators(_, _)
SkipSeparators(input_path, i) ==
    IF IsSeparator(CharAt(input_path, i)) THEN SkipSeparators(input_path, i + 1) ELSE i

\* The loop that parses the rest of the path from position i on.
RECURSIVE ParseParts(_, _, _)
ParseParts(input_path, i, parts) ==
    IF CharAt(input_path, i) = "NUL" THEN parts
    ELSE IF IsSeparator(CharAt(input_path, i))
    THEN ParseParts(input_path, SkipSeparators(input_path, i), Append(parts, <<>>))
    ELSE ParseParts(input_path, i + 1,
                    [parts EXCEPT ![Len(parts)] = Append(@, CharAt(input_path, i))])

\* parts.erase(parts.begin() + i), i counted from 0.
Erase(parts, i) == SubSeq(parts, 1, i) \o SubSeq(parts, i + 2, Len(parts))

\* The loop that removes the "." and ".." parts, i counted from 0.
RECURSIVE RemoveDotParts(_, _)
RemoveDotParts(parts, i) ==
    IF i >= Len(parts) THEN parts
    ELSE IF parts[i + 1] = <<".">>
    THEN RemoveDotParts(Erase(parts, i), i)
    ELSE IF parts[i + 1] = <<".", ".">> /\ i > 0 /\ parts[i] # <<".", ".">>
    THEN RemoveDotParts(Erase(Erase(parts, i), i - 1), i - 1)
    ELSE RemoveDotParts(parts, i + 1)

RECURSIVE JoinParts(_, _, _)
JoinParts(parts, i, separator) ==
    IF i > Len(parts) THEN <<>>
    ELSE parts[i] \o (IF i # Len(parts) THEN <<separator>> ELSE <<>>)
             \o JoinParts(parts, i + 1, separator)

normalise_path(input_path, use_backslashes_as_path_separators) ==
    LET separator == IF use_backslashes_as_path_separators THEN "\\" ELSE "/"
        is_drive == /\ IsAlpha(CharAt(input_path, 0))
                    /\ CharAt(input_path, 1) = ":"
                    /\ IsSeparator(CharAt(input_path, 2))
        is_absolute == IsSeparator(CharAt(input_path, 0)) \/ is_drive
        parts == RemoveDotParts(
                     ParseParts(input_path,
                                IF IsSeparator(CharAt(input_path, 0)) THEN 0
                                ELSE IF is_drive THEN 2 ELSE 0,
                                IF is_absolute THEN <<>> ELSE <<<<>>>>), 0)
    IN  (IF is_absolute
         THEN (IF ~IsSeparator(CharAt(input_path, 0))
               THEN <<ToUpper(CharAt(input_path, 0)), ":">> ELSE <<>>)
                  \o <<separator>>
         ELSE <<>>)
            \o JoinParts(parts, 1, separator)

\* The separators merge_paths chooses for base and path.
is_windows_path(base, path) ==
    IF base = <<>> THEN guess_is_windows_path(path) ELSE guess_is_windows_path(base)

merge_paths(base, path) ==
    LET is_absolute_unix ==
            (Len(path) >= 1 /\ CharAt(path, 0) = "/") \/ CharAt(path, 0) = "\\"
        is_absolute_windows ==
            Len(path) >= 3 /\ path[2] = ":" /\ (path[3] = "/" \/ path[3] = "\\")
    IN  IF base = <<>> \/ is_absolute_unix \/ is_absolute_windows
        THEN normalise_path(path, is_windows_path(base, path))
        ELSE normalise_path(base \o <<"/">> \o path, is_windows_path(base, path))

PathChars == {"/", "\\", ".", "c", ":"}

RECURSIVE Paths(_)
Paths(n) ==
    IF n = 0 THEN {<<>>}
    ELSE Paths(n - 1) \cup {Append(p, c) : p \in {q \in Paths(n - 1) : Len(q) = n - 1},
                                          c \in PathChars}

BasePaths == {<<>>, <<".">>, <<"a">>, <<"/", "a">>, <<".", "/", "c", ":">>, <<"c", ":", "\\", "a">>}

\* merge_paths is called with a base path and a path.
MergePaths ==
    /\ path_pc = "input"
    /\ path_merged' = merge_paths(path_base, path_path)
    /\ path_pc' = "merged"
    /\ UNCHANGED <<path_base, path_path, path_again>>
    /\ UNCHANGED <<range_vars, lowering_vars, symtab_vars, types_vars>>

\* The path merge_paths returned is normalised with the separators it has.
NormaliseAgain ==
    /\ path_pc = "merged"
    /\ path_again' = normalise_path(path_merged, is_windows_path(path_base, path_path))
    /\ path_pc' = "done"
    /\ UNCHANGED <<path_base, path_path, path_merged>>
    /\ UNCHANGED <<range_vars, lowering_vars, symtab_vars, types_vars>>

PathInit ==
    /\ path_base \in BasePaths
    /\ path_path \in Paths(MaxPathLen)
    /\ path_pc = "input"
    /\ path_merged = <<>>
    /\ path_again = <<>>
    /\ RangeIdle
    /\ LoweringIdle
    /\ SymtabIdle
    /\ TypesIdle

PathNext ==
    \/ MergePaths
    \/ NormaliseAgain

SpecPath == PathInit /\ [][PathNext]_vars

(***************************************************************************)
(* Claims about parse_symbol_table.                                        *)
(***************************************************************************)
\* C1: an image whose symbolic header has a magic other than 0x7009 is
\* rejected whatever its header and tables hold: the process exits with
\* "Invalid symbolic header.", no file is stored, and the only record read
\* is the symbolic header; before the magic is checked nothing is read.
BadMagicRejected ==
    /\ sym_pc = "header" => sym_reads = <<>>
    /\ (sym_pc \notin {"idle", "header"} /\ image.header.magic # Magic) =>
           /\ sym_pc = "exited"
           /\ sym_error = "Invalid symbolic header."
           /\ symbol_table = <<>>
           /\ sym_reads = <<"MIPS debug section">>

\* An image with two little-endian files and a magic that differs from
\* 0x7009 in its high byte only has been rejected.
BadMagicWitness ==
    /\ sym_pc = "exited"
    /\ image.header.magic = 9
    /\ Len(image.file_descriptors) = 2
    /\ image.header.file_descriptor_count = 2
    /\ \A k \in 1..2 : image.file_descriptors[k].f_big_endian = 0
    /\ sym_reads = <<"MIPS debug section">>

(***************************************************************************)
(* Claims about stabs_type_to_ast.                                         *)
(***************************************************************************)
\* Every call on the stack was given the depth of its caller plus one when
\* it is a call of stabs_type_to_ast, and the depth of the call of
\* stabs_type_to_ast that made it when it is a call of field_to_ast or
\* member_functions_to_ast.
NestedCallsDeeper ==
    \A k \in 2..Len(stack) :
        IF stack[k].fn = "stabs_type_to_ast"
        THEN stack[k].depth = stack[k - 1].depth + 1
        ELSE stack[k].depth = stack[k - 1].depth /\ stack[k - 1].fn = "stabs_type_to_ast"

\* C2: on every graph, cyclic ones included, nested calls are given strictly
\* larger depths and the lowering of a graph that exceeds the call depth
\* ends by returning: a tree that holds an Error node when STRICT_PARSING is
\* clear, the call-depth failure when it is set.
CycleEndsWithErrorOrFailure ==
    /\ NestedCallsDeeper
    /\ (guard_fired /\ status # "running") =>
           /\ status = "done"
           /\ IF STRICT_PARSING \in parser_flags
              THEN ~ret.ok /\ ret.error = CallDepthMessage
              ELSE ret.ok /\ ContainsError(ret.value)

\* The original statement of C3: with STRICT_PARSING clear the lowering
\* never returns a failure to the caller of the outermost call.
LenientNeverFails == (STRICT_PARSING \notin parser_flags /\ status = "done") => ret.ok

\* The lowering comes to the type that the index does not hold: no name
\* stands for the type given to the outermost call.
MissingTypeMet == input.leaf = "MISSING" /\ ~input.root_name.has_value

\* C3 (amended): with STRICT_PARSING clear, exceeding the call depth or
\* meeting an unknown type number never makes a call return a failure; the
\* sub-tree becomes an Error node and the enclosing nodes are produced
\* around it.
LenientErrorsBecomeNodes ==
    STRICT_PARSING \notin parser_flags =>
        /\ (ret # NoResult /\ ~ret.ok) => ret.error \notin {CallDepthMessage, LookupMessage}
        /\ ((guard_fired \/ MissingTypeMet) /\ status # "running") =>
               /\ status = "done"
               /\ ret.ok
               /\ ContainsError(ret.value)

\* A lenient lowering of a struct with a field of an unknown type number
\* has returned the struct with an Error node for the type of the field.
LenientErrorsWitness ==
    /\ STRICT_PARSING \notin parser_flags
    /\ status = "done"
    /\ input.wrappers = <<"STRUCT_FIELD">>
    /\ input.leaf = "MISSING"
    /\ ret.ok
    /\ ret.value.descriptor = "STRUCT_OR_UNION"
    /\ Len(ret.value.fields) = 2
    /\ ret.value.fields[2].descriptor = "ERROR"
    /\ ret.value.fields[2].message = LookupMessage

\* A lenient lowering of a cycle through a pointer has returned a tree in
\* which the call that exceeded the depth left an Error node.
LenientDepthWitness ==
    /\ STRICT_PARSING \notin parser_flags
    /\ guard_fired
    /\ status = "done"
    /\ input.wrappers = <<"ARRAY">>
    /\ ret.ok
    /\ ret.value.descriptor = "ARRAY"
    /\ ContainsError(ret.value)

\* C4: with STRICT_PARSING set, a call that finds that the call it made has
\* failed returns that failure, untouched, to its own caller, whatever its
\* descriptor.
StrictFailurePropagates ==
    [][(STRICT_PARSING \in parser_flags /\ status = "running" /\ ret # NoResult /\ ~ret.ok) =>
           /\ ret' = ret
           /\ stack' = SubSeq(stack, 1, Len(stack) - 1)
           /\ status' \in {"running", "done"}]_vars

\* The files whose symbols have been stored: those of the table and the one
\* being read.
StoredFiles ==
    {symbol_table[k] : k \in 1..Len(symbol_table)}
        \cup (IF sym_pc \in {"symbols", "exited"} /\ sym_fd # NullOpt THEN {sym_fd} ELSE {})

\* The offset local_strings_offset + strings_offset + iss of the symbol
\* at index j, counted from 1, of a file, as an integer; iss is taken as the
\* signed value of its 32 bits, so that a sum that wraps is the offset left
\* and a negative sum is an offset past every image.
SymbolOffsetOf(file, j) ==
    LET iss == image.local_symbols[file.header.isym_base + j].iss
        iss_signed == IF iss[2] >= Limb \div 2 THEN (iss[2] - Limb) * Limb + iss[1]
                      ELSE iss[2] * Limb + iss[1]
    IN  image.header.local_strings_offset + file.header.strings_offset + iss_signed

\* string is the bytes of the image from offset up to the first NUL after
\* them.
IsStringAt(string, offset) ==
    /\ 0 <= offset
    /\ offset + Len(string) < Len(image.bytes)
    /\ image.bytes[offset + Len(string) + 1] = "NUL"
    /\ \A k \in 1..Len(string) :
           image.bytes[offset + k] = string[k] /\ string[k] # "NUL"

\* The image holds a NUL at offset or after it.
ReadableAt(offset) ==
    /\ 0 <= offset
    /\ offset < Len(image.bytes)
    /\ \E k \in (offset + 1)..Len(image.bytes) : image.bytes[k] = "NUL"

\* C5: the string of every stored symbol is the NUL-terminated bytes found
\* inside the image at local_strings_offset + strings_offset + iss, and a
\* table is returned only when every symbol of every file has such a string;
\* the read of a string fails only where the image holds no NUL at the
\* offset or after it.
SymbolStringsInsideImage ==
    /\ \A file \in StoredFiles : \A j \in 1..Len(file.symbols) :
           IsStringAt(file.symbols[j].string, SymbolOffsetOf(file, j))
    /\ sym_pc = "returned" =>
           /\ Len(symbol_table) = image.header.file_descriptor_count
           /\ \A k \in 1..Len(symbol_table) :
                  /\ symbol_table[k].header = image.file_descriptors[k]
                  /\ Len(symbol_table[k].symbols) =
                         IF symbol_table[k].header.symbol_count < 0 THEN 0
                         ELSE symbol_table[k].header.symbol_count
    /\ \A file \in StoredFiles :
           LET j == Len(file.symbols) + 1
               p == file.header.isym_base + j
           IN  (/\ sym_pc = "exited"
                /\ file = sym_fd
                /\ sym_reads[Len(sym_reads)] = "local symbol"
                /\ sym_error = "Unexpected end of buffer while reading string."
                /\ p \in 1..Len(image.local_symbols)) =>
                   ~ReadableAt(SymbolOffsetOf(file, j))

\* A table has been returned with a symbol whose string "a" starts at
\* offset 0, reached through a local_strings_offset of -1.
SymbolStringsWitness ==
    /\ sym_pc = "returned"
    /\ image.header.local_strings_offset = -1
    /\ Len(symbol_table) = 1
    /\ Len(symbol_table[1].symbols) = 1
    /\ symbol_table[1].symbols[1].string = <<"a">>
    /\ symbol_table[1].header.strings_offset = 0

\* A read of a symbol's string has failed on an offset that wrapped past
\* the end of the image.
SymbolStringFailsWitness ==
    /\ sym_pc = "exited"
    /\ sym_error = "Unexpected end of buffer while reading string."
    /\ sym_fd # NullOpt
    /\ sym_fd.symbols = <<>>
    /\ SymbolOffsetOf(sym_fd, 1) < 0
    /\ Len(image.bytes) = 3

\* The file descriptors that have been read, by index from 1.
FilesRead ==
    IF sym_pc \in {"idle", "header"} THEN {}
    ELSE {k \in 1..Len(image.file_descriptors) :
              k <= sym_i + (IF sym_pc \in {"symbols", "segfault"} THEN 1 ELSE 0)}

\* C6: the first file descriptor with f_big_endian set ends the parse with
\* the message for it, whatever files came before it: no file is read past
\* it and no table is returned for a section that holds one among its
\* file_descriptor_count descriptors.
BigEndianRejectsSection ==
    /\ \A k \in FilesRead : image.file_descriptors[k].f_big_endian = 0
    /\ sym_pc = "returned" =>
           \A k \in 1..image.header.file_descriptor_count :
               /\ k <= Len(image.file_descriptors)
               /\ image.file_descriptors[k].f_big_endian = 0
    /\ sym_error = "Not little endian or bad file descriptor table." =>
           /\ sym_pc = "exited"
           /\ image.file_descriptors[sym_i + 1].f_big_endian # 0

\* The second file of a section is big endian and the first, with its two
\* symbols, is not: the parse has stored the first file and exited.
BigEndianWitness ==
    /\ sym_pc = "exited"
    /\ sym_error = "Not little endian or bad file descriptor table."
    /\ sym_i = 1
    /\ Len(symbol_table) = 1
    /\ Len(symbol_table[1].symbols) = 2
    /\ image.file_descriptors[1].f_big_endian = 0
    /\ image.file_descriptors[2].f_big_endian = 1

(***************************************************************************)
(* C7.  The reference function of range classification, stated on the      *)
(* numerals themselves: the numeral of a bound is the longest run of       *)
(* digits of its base after leading white space and one sign, and two      *)
(* numerals of the same base denote the same number exactly when they are  *)
(* equal once their leading zeros are dropped.                             *)
(***************************************************************************)
RECURSIVE DropWhile(_, _)
DropWhile(s, chars) ==
    IF s # <<>> /\ Head(s) \in chars THEN DropWhile(Tail(s), chars) ELSE s

NumeralOf(s) ==
    LET base == IF s # <<>> /\ Head(s) = "0" THEN 8 ELSE 10
        body == DropWhile(s, {" ", "\t", "\n"})
        signed == body # <<>> /\ Head(body) \in {"-", "+"}
        rest == IF signed THEN Tail(body) ELSE body
        k == CHOOSE n \in 0..Len(rest) :
                 /\ \A i \in 1..n : IsDigit(rest[i], base)
                 /\ n < Len(rest) => ~IsDigit(rest[n + 1], base)
        digits == DropWhile(SubSeq(rest, 1, k), {"0"})
    IN  [parsed |-> k > 0, base |-> base, digits |-> digits,
         negative |-> signed /\ Head(body) = "-" /\ digits # <<>>]

ReferenceRow(lo10, lo8, hi10, hi8, cls) ==
    [lo10 |-> lo10, lo8 |-> lo8, hi10 |-> hi10, hi8 |-> hi8, cls |-> cls]

\* The rows (lo, hi, cls) of the numeric table: |lo| and hi as decimal and
\* as octal numerals.
ReferenceRows == {
    ReferenceRow(<<>>, <<>>, <<"2", "5", "5">>, <<"3", "7", "7">>, "UNSIGNED_8"),
    ReferenceRow(<<"1", "2", "8">>, <<"2", "0", "0">>, <<"1", "2", "7">>, <<"1", "7", "7">>, "SIGNED_8"),
    ReferenceRow(<<>>, <<>>, <<"1", "2", "7">>, <<"1", "7", "7">>, "UNQUALIFIED_8"),
    ReferenceRow(<<>>, <<>>, <<"6", "5", "5", "3", "5">>, <<"1">> \o Rep("7", 5), "UNSIGNED_16"),
    ReferenceRow(<<"3", "2", "7", "6", "8">>, <<"1">> \o Rep("0", 5),
                 <<"3", "2", "7", "6", "7">>, Rep("7", 5), "SIGNED_16"),
    ReferenceRow(<<>>, <<>>, <<"4", "2", "9", "4", "9", "6", "7", "2", "9", "5">>,
                 <<"3">> \o Rep("7", 10), "UNSIGNED_32"),
    ReferenceRow(<<"2", "1", "4", "7", "4", "8", "3", "6", "4", "8">>, <<"2">> \o Rep("0", 10),
                 <<"2", "1", "4", "7", "4", "8", "3", "6", "4", "7">>, <<"1">> \o Rep("7", 10),
                 "SIGNED_32") }

\* (lo == low \/ lo == -low) /\ hi == high
ReferenceMatch(row, low, high) ==
    LET l == NumeralOf(low)
        h == NumeralOf(high)
    IN  /\ l.digits = (IF l.base = 8 THEN row.lo8 ELSE row.lo10)
        /\ h.digits = (IF h.base = 8 THEN row.hi8 ELSE row.hi10)
        /\ ~h.negative

ReferenceClasses(low, high) ==
    IF \E i \in 1..Len(strings) : strings[i].low = low /\ strings[i].high = high
    THEN {strings[i].classification :
              i \in {j \in 1..Len(strings) : strings[j].low = low /\ strings[j].high = high}}
    ELSE IF NumeralOf(low).parsed /\ NumeralOf(high).parsed
         THEN {row.cls : row \in {r \in ReferenceRows : ReferenceMatch(r, low, high)}}
         ELSE {}

\* C7: classify_range returns the class the reference function gives to
\* (low, high): the class of the literal row that equals the pair as strings,
\* else the class of the numeric row with (lo = low or lo = -low) and
\* hi = high for the bounds parsed in base 8 (leading '0') or base 10, and a
\* failure when no row matches.
ClassifyRangeIsReference ==
    range_pc = "done" =>
        LET classes == ReferenceClasses(range_low, range_high)
        IN  IF classes = {}
            THEN ~range_result.ok
            ELSE range_result.ok /\ classes = {range_result.value}

\* The SIGNED_32 example: a row found through the numeric table.
ClassifyRangeWitness ==
    /\ range_pc = "done"
    /\ range_low = <<"-", "2", "1", "4", "7", "4", "8", "3", "6", "4", "8">>
    /\ range_high = <<"2", "1", "4", "7", "4", "8", "3", "6", "4", "7">>
    /\ range_result = Success("SIGNED_32")

(***************************************************************************)
(* Claims about the fields of a struct or union.                           *)
(***************************************************************************)
\* The lowering has returned a struct or union whose second field is the
\* field of the input.
FieldLowered ==
    /\ status = "done"
    /\ ret.ok
    /\ Len(input.wrappers) >= 1
    /\ input.wrappers[1] \in {"STRUCT_FIELD", "UNION_FIELD"}

\* The node of that field.
FieldNode == ret.value.fields[2]

\* The size in bits of the type the field's type resolves to through type
\* references, qualifiers and body-less references, 0 when it has none.
LeafBits ==
    CASE input.leaf \in {"RANGE_SIGNED", "RANGE_UNSIGNED", "RANGE_NAMED", "CROSS_REFERENCE_ENUM"} -> 32
      [] input.leaf \in {"BUILTIN_BOOL", "BUILTIN_UNKNOWN"} -> 8
      [] OTHER -> 0

UnderlyingBits ==
    IF Len(input.wrappers) = 1 THEN LeafBits
    ELSE IF input.wrappers[2] = "TYPE_ATTRIBUTE" THEN 16
    ELSE IF /\ Len(input.wrappers) <= ResolveLimit
            /\ \A k \in 2..Len(input.wrappers) :
                   input.wrappers[k] \in {"TYPE_REFERENCE", "CONST_QUALIFIER",
                                          "VOLATILE_QUALIFIER", "BODYLESS"}
    THEN LeafBits
    ELSE 0

\* C8: a field is lowered as a BitField only when it is not static and its
\* size_bits differs from the size in bits of its underlying type; a field
\* whose size_bits equals that size is lowered as a plain node.
BitFieldOnlyWhenSizeDiffers ==
    FieldLowered =>
        /\ FieldNode.descriptor = "BITFIELD" =>
               /\ ~input.is_static
               /\ UnderlyingBits # 0
               /\ input.size_bits # UnderlyingBits
        /\ input.size_bits = UnderlyingBits => FieldNode.descriptor # "BITFIELD"

\* Three bits of an unsigned 32-bit range reached through a const qualifier
\* have been lowered as a BitField.
BitFieldWitness ==
    /\ FieldLowered
    /\ input.wrappers = <<"STRUCT_FIELD", "CONST_QUALIFIER">>
    /\ input.leaf = "RANGE_UNSIGNED"
    /\ input.size_bits = 3
    /\ ~input.is_static
    /\ FieldNode.descriptor = "BITFIELD"
    /\ FieldNode.underlying_type.descriptor = "BUILTIN"

\* A static field of three bits of a 32-bit range has been lowered as a
\* plain node.
StaticFieldWitness ==
    /\ FieldLowered
    /\ input.leaf = "RANGE_SIGNED"
    /\ input.size_bits = 3
    /\ input.is_static
    /\ FieldNode.descriptor = "BUILTIN"
    /\ FieldNode.storage_class = "STATIC"

\* What is left of offset_bits once the bytes of offset_bytes are taken.
FieldRemainder == input.offset_bits - FieldNode.offset_bytes * 8

\* The original statement of C9: offset_bytes and bitfield_offset_bits split
\* offset_bits, and bitfield_offset_bits lies in 0..7, for every value of
\* offset_bits.
BitfieldOffsetInByte ==
    (FieldLowered /\ FieldNode.descriptor = "BITFIELD") =>
        /\ FieldNode.bitfield_offset_bits \in 0..7
        /\ FieldNode.offset_bytes * 8 + FieldNode.bitfield_offset_bits = input.offset_bits

\* C9 (amended): offset_bytes is offset_bits / 8 rounded toward zero, and a
\* BitField has bitfield_offset_bits = offset_bits - 8 * offset_bytes, which
\* lies in 0..7 when offset_bits is not negative and in -7..0 when it is.
FieldOffsetsSplitOffsetBits ==
    FieldLowered =>
        /\ IF input.offset_bits >= 0 THEN FieldRemainder \in 0..7
           ELSE FieldRemainder \in (-7)..0
        /\ FieldNode.descriptor = "BITFIELD" =>
               FieldNode.bitfield_offset_bits = FieldRemainder

\* A BitField at offset_bits -3 has offset_bytes 0 and bitfield_offset_bits
\* -3.
NegativeOffsetWitness ==
    /\ FieldLowered
    /\ FieldNode.descriptor = "BITFIELD"
    /\ input.offset_bits = -3
    /\ FieldNode.offset_bytes = 0
    /\ FieldNode.bitfield_offset_bits = -3

\* The example of the specification: size_bits 3 at offset_bits 5.
BitfieldExampleWitness ==
    /\ FieldLowered
    /\ FieldNode.descriptor = "BITFIELD"
    /\ input.size_bits = 3
    /\ input.offset_bits = 5
    /\ FieldNode.offset_bytes = 0
    /\ FieldNode.bitfield_offset_bits = 5

(***************************************************************************)
(* Claims about arrays.                                                    *)
(***************************************************************************)
\* The lowering of an array of 32-bit integers has ended.
ArrayLowered ==
    /\ status = "done"
    /\ input.wrappers = <<"ARRAY">>
    /\ input.leaf = "RANGE_SIGNED"

\* The lows of the pool that strtoll reads as 0 in base 10.
LowsParsedZero == {<<"0">>, <<"0", "0">>, <<"-", "0">>, <<" ", "0">>, <<"0", "x">>}

\* The highs of the pool with the integer strtoll reads in base 10, other
\* than 4294967295.
HighsParsed ==
    {<<Decimal(n), n>> : n \in (-MaxIndex)..MaxIndex}
        \cup {<<<<"9">>, 9>>, <<<<"0", "1", "0">>, 10>>, <<<<" ", "7">>, 7>>,
              <<<<"7", "x">>, 7>>}

\* The original statement of C10: the element count of a lowered array is
\* never negative.
ElementCountNeverNegative ==
    (ArrayLowered /\ ret.ok) => ret.value.element_count >= 0

\* C10 (amended): with low parsed as 0, a high of 4294967295 gives
\* element_count 0 and any other high gives high + 1, negative when high is
\* below -1; a low that does not parse to 0 makes the lowering fail.
ElementCountIsHighPlusOne ==
    ArrayLowered =>
        /\ input.low \notin LowsParsedZero => ~ret.ok
        /\ (input.low \in LowsParsedZero /\ input.high = STR_U32_MAX) =>
               ret.ok /\ ret.value.element_count = 0
        /\ \A h \in HighsParsed :
               (input.low \in LowsParsedZero /\ input.high = h[1]) =>
                   ret.ok /\ ret.value.element_count = h[2] + 1

\* An array whose index runs from 0 to -2 has been lowered with element
\* count -1.
NegativeElementCountWitness ==
    /\ ArrayLowered
    /\ input.low = <<"0">>
    /\ input.high = <<"-", "2">>
    /\ ret.ok
    /\ ret.value.descriptor = "ARRAY"
    /\ ret.value.element_count = -1

(***************************************************************************)
(* Claims about qualifiers and substitution.                               *)
(***************************************************************************)
\* The lowering of a chain of qualifiers around an inner type has returned
\* a node.
QualifierLowered ==
    /\ status = "done"
    /\ ret.ok
    /\ input.wrappers # <<>>
    /\ \A k \in 1..Len(input.wrappers) :
           input.wrappers[k] \in {"CONST_QUALIFIER", "VOLATILE_QUALIFIER"}

\* The outermost qualifier is replaced by its name before its descriptor is
\* examined.
QualifierSubstituted ==
    input.root_name.has_value /\ (input.substitute_type_name \/ input.depth > 0)

RootType == stabs_types[Aux.root]

\* The outermost call has returned the node of the struct or union it was
\* given.
StructLowered ==
    /\ status = "done"
    /\ ret.ok
    /\ RootType.has_body
    /\ RootType.descriptor \in {"STRUCT", "UNION"}
    /\ ret.value.descriptor = "STRUCT_OR_UNION"

\* The number of overloads of the sets before set s.
RECURSIVE OverloadsBefore(_, _)
OverloadsBefore(sets, s) ==
    IF s = 1 THEN 0 ELSE OverloadsBefore(sets, s - 1) + Len(sets[s - 1].overloads)

\* C12: the base classes, the fields and the member functions of a lowered
\* struct or union are those of the STABS type in its order, the overloads
\* of a set in their order after those of the sets before it, and the
\* constants of a lowered enum are the pairs of the STABS enum in its order.
SourceOrderPreserved ==
    /\ StructLowered =>
           /\ Len(ret.value.base_classes) = Len(RootType.base_classes)
           /\ \A k \in 1..Len(RootType.base_classes) :
                  ret.value.base_classes[k].offset_bytes = RootType.base_classes[k].offset
           /\ Len(ret.value.fields) = Len(RootType.fields)
           /\ \A k \in 1..Len(RootType.fields) :
                  /\ ret.value.fields[k].name =
                         (IF ret.value.fields[k].descriptor = "BITFIELD"
                              /\ RootType.fields[k].name = <<" ">>
                          THEN <<>> ELSE RootType.fields[k].name)
                  /\ ret.value.fields[k].size_bits = RootType.fields[k].size_bits
           /\ ret.value.member_functions # <<>> =>
                  /\ Len(ret.value.member_functions) =
                         OverloadsBefore(RootType.member_functions,
                                         Len(RootType.member_functions) + 1)
                  /\ \A s \in 1..Len(RootType.member_functions) :
                         \A o \in 1..Len(RootType.member_functions[s].overloads) :
                             LET node == ret.value.member_functions[
                                             OverloadsBefore(RootType.member_functions, s) + o]
                                 stabs_func == RootType.member_functions[s].overloads[o]
                             IN  /\ demangler = "absent" =>
                                        node.name = RootType.member_functions[s].name
                                 /\ node.descriptor = "FUNCTION" =>
                                        node.vtable_index = stabs_func.vtable_index
    /\ (status = "done" /\ ret.ok /\ RootType.has_body /\ RootType.descriptor = "ENUM"
            /\ ret.value.descriptor = "ENUM") =>
           ret.value.constants = RootType.fields

\* The struct whose members are arranged as 3, 1, 2 has been lowered with
\* its fields c, a, b, its base classes at 12, 4, 8 and the overloads 3, 1
\* of the set c, then 2, 3 of the set b.
SourceOrderWitness ==
    /\ StructLowered
    /\ input.leaf = "STRUCT_ORDERED"
    /\ input.order = <<3, 1, 2>>
    /\ [k \in 1..3 |-> ret.value.fields[k].name] = <<<<"c">>, <<"a">>, <<"b">>>>
    /\ ret.value.fields[2].descriptor = "BITFIELD"
    /\ [k \in 1..3 |-> ret.value.base_classes[k].offset_bytes] = <<12, 4, 8>>
    /\ [k \in 1..4 |-> ret.value.member_functions[k].vtable_index] = <<3, 1, 2, 3>>
    /\ [k \in 1..4 |-> ret.value.member_functions[k].name] = <<<<"c">>, <<"c">>, <<"b">>, <<"b">>>>

\* The enum whose constants are arranged as 3, 1, 2 has been lowered.
EnumOrderWitness ==
    /\ status = "done"
    /\ ret.ok
    /\ input.leaf = "ENUM_ORDERED"
    /\ input.wrappers = <<>>
    /\ input.order = <<3, 1, 2>>
    /\ ret.value.constants = <<<<<<"c">>, 1>>, <<<<"a">>, -1>>, <<<<"b">>, 0>>>>

(***************************************************************************)
(* Claims about member functions.                                          *)
(***************************************************************************)
\* The name of the struct given to the outermost call, cut at its first "<".
StrippedRootName ==
    IF RootType.name.has_value THEN NoTemplateArgs(RootType.name.value) ELSE <<>>

\* The outermost call has returned the node of its struct with member
\* functions in it.
MemberFunctionsLowered ==
    /\ StructLowered
    /\ ret.value.member_functions # <<>>

NamedConstructor(name) ==
    \/ name \in {<<"_", "_", "c", "t">>, STR_comp_ctor, STR_base_ctor}
    \/ StrippedRootName # <<>> /\ name = StrippedRootName

NamedDestructor(name) ==
    \/ name \in {<<"_", "_", "d", "t">>, STR_comp_dtor, STR_base_dtor, STR_deleting_dtor}
    \/ Len(name) > 0 /\ Head(name) = "~" /\ Tail(name) = StrippedRootName

\* C13: every node of an overload carries the name of its set, demangled
\* when the hook knows it, is_constructor_or_destructor exactly when that
\* name is one of a constructor or of a destructor of the type without its
\* template arguments or starts with "$_", and is_special_member_function
\* exactly when it is that or the name is "operator=".
MemberFunctionsClassified ==
    MemberFunctionsLowered =>
        \A s \in 1..Len(RootType.member_functions) :
            \A o \in 1..Len(RootType.member_functions[s].overloads) :
                LET node == ret.value.member_functions[
                                OverloadsBefore(RootType.member_functions, s) + o]
                    mangled_name == RootType.member_functions[s].name
                    ctor_or_dtor ==
                        \/ NamedConstructor(node.name)
                        \/ NamedDestructor(node.name)
                        \/ Len(node.name) >= 2 /\ SubSeq(node.name, 1, 2) = <<"$", "_">>
                IN  /\ node.name =
                           (IF demangler = "opname" /\ mangled_name = <<"_", "_", "a", "s">>
                            THEN STR_operator_assign
                            ELSE IF demangler = "opname" /\ mangled_name = <<"_", "_", "p", "l">>
                            THEN STR_operator_plus
                            ELSE mangled_name)
                    /\ node.is_constructor_or_destructor = ctor_or_dtor
                    /\ node.is_special_member_function =
                           (ctor_or_dtor \/ node.name = STR_operator_assign)

\* The struct Foo<int> with the set Foo has been lowered: its function is
\* named Foo and carries both flags.
NamedConstructorWitness ==
    /\ MemberFunctionsLowered
    /\ RootType.name = Some(STR_Foo_int)
    /\ RootType.member_functions[1].name = STR_Foo
    /\ ret.value.member_functions[1].name = STR_Foo
    /\ ret.value.member_functions[1].is_constructor_or_destructor
    /\ ret.value.member_functions[1].is_special_member_function

\* The struct Foo with the set Foo, as in the example of the claim.
ExampleConstructorWitness ==
    /\ MemberFunctionsLowered
    /\ RootType.name = Some(STR_Foo)
    /\ ret.value.member_functions[1].name = STR_Foo
    /\ ret.value.member_functions[1].is_constructor_or_destructor
    /\ ret.value.member_functions[1].is_special_member_function

\* A set "~" of a struct without a name is one of a destructor.
AnonymousDestructorWitness ==
    /\ MemberFunctionsLowered
    /\ ~RootType.name.has_value
    /\ ret.value.member_functions[1].name = <<"~">>
    /\ ret.value.member_functions[1].is_constructor_or_destructor

\* The set __as demangled to operator= is special without being one of a
\* constructor or of a destructor.
AssignmentWitness ==
    /\ MemberFunctionsLowered
    /\ RootType.member_functions[1].name = <<"_", "_", "a", "s">>
    /\ ret.value.member_functions[1].name = STR_operator_assign
    /\ ~ret.value.member_functions[1].is_constructor_or_destructor
    /\ ret.value.member_functions[1].is_special_member_function

(***************************************************************************)
(* Claims about print_types.                                               *)
(***************************************************************************)
\* The arguments the parser is owed for the symbols of a file from the j-th
\* on, run being the parts joined so far: a symbol of another storage type
\* or class is passed over, a string that ends with a backslash joins the
\* run without it, and a string that does not closes the run, which is
\* parsed when it does not begin with "$".  An empty string closes the run
\* without a call.
RECURSIVE ClaimedCalls(_, _, _)
ClaimedCalls(symbols, j, run) ==
    IF j > Len(symbols) THEN <<>>
    ELSE LET sym == symbols[j]
         IN  IF ~(sym.storage_type = "NIL" /\ sym.storage_class = 0)
             THEN ClaimedCalls(symbols, j + 1, run)
             ELSE IF sym.string = <<>>
             THEN ClaimedCalls(symbols, j + 1, <<>>)
             ELSE IF sym.string[Len(sym.string)] = "\\"
             THEN ClaimedCalls(symbols, j + 1,
                               run \o SubSeq(sym.string, 1, Len(sym.string) - 1))
             ELSE (IF (run \o sym.string)[1] = "$" THEN <<>> ELSE <<run \o sym.string>>)
                      \o ClaimedCalls(symbols, j + 1, <<>>)

RECURSIVE ClaimedCallsOfFiles(_, _)
ClaimedCallsOfFiles(files, i) ==
    IF i > Len(files) THEN <<>>
    ELSE ClaimedCalls(files[i], 1, <<>>) \o ClaimedCallsOfFiles(files, i + 1)

\* C14: when print_types returns, the parser has been called once for each
\* completed run of NIL symbols of class 0 of each file, in order, with the
\* strings of the run joined without their trailing backslashes, and for no
\* symbol of another storage type.
SplitSymbolsParsedOnce ==
    types_pc = "returned" => parsed = ClaimedCallsOfFiles(types_files, 1)

\* A run has been joined and parsed.
SplitSymbolParsedWitness ==
    /\ types_pc = "returned"
    /\ Len(types_files) = 1
    /\ Len(types_files[1]) = 3
    /\ [j \in 1..3 |-> types_files[1][j].string] = <<<<"b", "\\">>, <<"\\">>, <<"a">>>>
    /\ \A j \in 1..3 : types_files[1][j].storage_class = 0
    /\ parsed = <<<<"b", "a">>>>

\* The run "$" "a" has been passed over and the symbol "a" after it with it.
StalePrefixWitness ==
    /\ types_pc = "returned"
    /\ Len(types_files) = 1
    /\ Len(types_files[1]) = 3
    /\ [j \in 1..3 |-> types_files[1][j].string] = <<<<"$", "\\">>, <<"a">>, <<"a">>>>
    /\ \A j \in 1..3 : types_files[1][j].storage_class = 0
    /\ parsed = <<>>

\* The name that check_member_function gives the set s of the struct.
DemangledSetName(s) ==
    LET mangled_name == RootType.member_functions[s].name
    IN  IF demangler = "opname" /\ mangled_name = <<"_", "_", "a", "s">>
        THEN STR_operator_assign
        ELSE IF demangler = "opname" /\ mangled_name = <<"_", "_", "p", "l">>
        THEN STR_operator_plus
        ELSE mangled_name

\* The overload o of the set s is a function or a method and is special for
\* the first loop of member_functions_to_ast.
SpecialOverload(s, o) ==
    LET function_set == RootType.member_functions[s]
        func_type == stabs_types[function_set.overloads[o].type]
    IN  /\ func_type.descriptor \in {"FUNCTION", "METHOD"}
        /\ \/ function_set.name = <<"_", "_", "a", "s">>
           \/ function_set.name = STR_operator_assign
           \/ Len(function_set.name) > 0 /\ Head(function_set.name) = "$"
           \/ /\ function_set.name = StrippedRootName
              /\ func_type.descriptor = "METHOD" => func_type.parameter_types = <<>>

\* Every function or method among the overloads of the set s is special.
AllSpecialSet(s) ==
    \A o \in 1..Len(RootType.member_functions[s].overloads) :
        stabs_types[RootType.member_functions[s].overloads[o].type].descriptor
            \in {"FUNCTION", "METHOD"} => SpecialOverload(s, o)

\* The name of the set s makes is_special_member_function true.
SpecialSetName(s) ==
    \/ NamedConstructor(DemangledSetName(s))
    \/ NamedDestructor(DemangledSetName(s))
    \/ Len(DemangledSetName(s)) >= 2 /\ SubSeq(DemangledSetName(s), 1, 2) = <<"$", "_">>
    \/ DemangledSetName(s) = STR_operator_assign

\* The outermost call has returned the node of its struct, lowered under
\* NO_GENERATED_MEMBER_FUNCTIONS and without NO_MEMBER_FUNCTIONS.
LoweredWithoutGenerated ==
    /\ StructLowered
    /\ parser_flags = {NO_GENERATED_MEMBER_FUNCTIONS}

\* The claim as it was made: under NO_GENERATED_MEMBER_FUNCTIONS no function
\* of a set whose overloads are all special is emitted.
SpecialSetsNotEmitted ==
    LoweredWithoutGenerated =>
        \A s \in 1..Len(RootType.member_functions) :
            AllSpecialSet(s) =>
                \A k \in 1..Len(ret.value.member_functions) :
                    ret.value.member_functions[k].name # DemangledSetName(s)

\* C15 (amended): under NO_GENERATED_MEMBER_FUNCTIONS the list is empty when
\* every function or method among the overloads is special, and when the
\* name of every set makes is_special_member_function true; otherwise every
\* overload of every set is emitted, those of the special sets too.
GeneratedFunctionsAllOrNone ==
    LoweredWithoutGenerated =>
        LET sets == RootType.member_functions
        IN  IF \/ \A s \in 1..Len(sets) : AllSpecialSet(s)
               \/ \A s \in 1..Len(sets) : SpecialSetName(s)
            THEN ret.value.member_functions = <<>>
            ELSE /\ Len(ret.value.member_functions) = OverloadsBefore(sets, Len(sets) + 1)
                 /\ \A s \in 1..Len(sets) :
                        \A o \in 1..Len(sets[s].overloads) :
                            ret.value.member_functions[OverloadsBefore(sets, s) + o].name
                                = DemangledSetName(s)

\* The struct of the sets __as and f has been lowered under
\* NO_GENERATED_MEMBER_FUNCTIONS with the two functions of __as emitted
\* before the one of f.
SpecialSetEmittedWitness ==
    /\ LoweredWithoutGenerated
    /\ input.leaf = "STRUCT_SETS"
    /\ RootType.member_functions[1].name = <<"_", "_", "a", "s">>
    /\ RootType.member_functions[2].name = <<"f">>
    /\ AllSpecialSet(1)
    /\ Len(ret.value.member_functions) = 3
    /\ ret.value.member_functions[1].name = DemangledSetName(1)
    /\ ret.value.member_functions[3].name = <<"f">>

\* The struct Foo of the sets Foo and __dt has passed the first loop, the
\* method Foo with a parameter not being special there, and has come out
\* empty by the names of its sets.
SpecialNamesEmptyWitness ==
    /\ LoweredWithoutGenerated
    /\ input.leaf = "STRUCT_SETS"
    /\ RootType.name = Some(STR_Foo)
    /\ RootType.member_functions[1].name = STR_Foo
    /\ RootType.member_functions[2].name = <<"_", "_", "d", "t">>
    /\ ~AllSpecialSet(1)
    /\ ret.value.member_functions = <<>>

\* Every overload is special for the first loop and the list is empty.
AllSpecialEmptyWitness ==
    /\ LoweredWithoutGenerated
    /\ input.leaf = "STRUCT_SETS"
    /\ RootType.member_functions[1].name = <<"$">>
    /\ RootType.member_functions[2].name = <<"_", "_", "a", "s">>
    /\ demangler = "absent"
    /\ ret.value.member_functions = <<>>

(***************************************************************************)
(* Claims about paths.                                                     *)
(***************************************************************************)
\* C16: the path merge_paths returns for a base path and a path is returned
\* unchanged when it is normalised again with the same separators.
NormaliseIdempotent ==
    path_pc = "done" => path_again = path_merged

\* A path with "." and ".." parts, repeated separators and one at its end
\* has been normalised twice to the same path.
NormaliseStableWitness ==
    /\ path_pc = "done"
    /\ path_base = <<"/", "a">>
    /\ path_path = <<".", ".", "/", "/">>
    /\ path_merged = <<"/">>
    /\ path_again = <<"/">>

\* A drive path has been normalised twice to the same path.
DriveStableWitness ==
    /\ path_pc = "done"
    /\ path_base = <<>>
    /\ path_path = <<"c", ":", "/", ".">>
    /\ path_merged = <<"C", ":", "/">>
    /\ path_again = path_merged

\* The base "./c:" and the path "c" merge to "c:/c", which is normalised
\* to "C:/c".
DriveUncoveredWitness ==
    /\ path_pc = "done"
    /\ path_base = <<".", "/", "c", ":">>
    /\ path_path = <<"c">>
    /\ path_merged = <<"c", ":", "/", "c">>
    /\ path_again = <<"C", ":", "/", "c">>

(***************************************************************************)
(* Claims about the checks stabs_type_to_ast makes before the switch.      *)
(***************************************************************************)
\* The result of a call refused for its depth.
DepthResult ==
    IF STRICT_PARSING \in parser_flags
    THEN Failure(CallDepthMessage)
    ELSE Success(ErrorNode(CallDepthMessage))

\* C17: the first step of a call of stabs_type_to_ast given a depth above
\* 200 is to return, the call-depth failure when STRICT_PARSING is set and
\* an Error node when it is clear, whatever the name, the body and the
\* descriptor of the type; the first step of a call given a depth of 200 or
\* less never returns that.
DepthGuardExact ==
    [][At("stabs_type_to_ast", "entry") =>
           IF Top.depth > 200
           THEN /\ stack' = SubSeq(stack, 1, Len(stack) - 1)
                /\ ret' = DepthResult
           ELSE ret' # DepthResult]_vars

\* A named type whose name would be substituted has been refused at depth
\* 201 with an Error node.
DepthGuardWitness ==
    /\ status = "done"
    /\ input.depth = 201
    /\ input.wrappers = <<>>
    /\ input.root_name.has_value
    /\ input.substitute_type_name
    /\ STRICT_PARSING \notin parser_flags
    /\ ret = Success(ErrorNode(CallDepthMessage))

\* A type without a body that the index does not hold has been refused at
\* depth 201 with the call-depth failure, not the one of the lookup.
DepthBeforeLookupWitness ==
    /\ status = "done"
    /\ input.depth = 201
    /\ input.wrappers = <<>>
    /\ input.leaf = "MISSING"
    /\ STRICT_PARSING \in parser_flags
    /\ ret = Failure(CallDepthMessage)

\* The call at depth 200 has replaced the named type by its name.
DepthLimitWitness ==
    /\ status = "done"
    /\ input.depth = 200
    /\ input.wrappers = <<>>
    /\ input.root_name.has_value
    /\ input.substitute_type_name
    /\ ret.ok
    /\ ret.value.descriptor = "TYPE_NAME"

\* The conditions under which the name of the type of the innermost call
\* stands for the type.
NameSubstitutionApplies ==
    /\ TopType.name.has_value
    /\ TopType.name.value \notin
           {<<>>, <<" ">>, <<"v", "o", "i", "d">>,
            <<"_", "_", "b", "u", "i", "l", "t", "i", "n", "_", "v", "a", "_", "l", "i", "s", "t">>}
    /\ TopType.descriptor # "CROSS_REFERENCE"
    /\ \/ Top.substitute_type_name
       \/ /\ Top.depth > 0
          /\ TopType.is_root \/ TopType.descriptor \in {"RANGE", "BUILTIN"}

\* The TypeName of source REFERENCE that carries the name and the number of
\* the type of the innermost call.
ReferenceResult ==
    Success(TypeName("REFERENCE", UnresolvedStabs(TopType.name, None, TopType.type_number)))

\* The claim as it was made: the first step of a call returns the TypeName
\* exactly when the conditions on the name, the descriptor, the depth and
\* substitute_type_name hold.
NamedTypesSubstituted ==
    [][At("stabs_type_to_ast", "entry") =>
           ((ret' = ReferenceResult) <=> NameSubstitutionApplies)]_vars

\* C18 (amended): the first step of a call given a depth of 200 or less
\* returns the TypeName of source REFERENCE with the name and the number of
\* the type exactly when the conditions on the name, the descriptor, the
\* depth and substitute_type_name hold; a call given a larger depth never
\* returns it.
NamedTypesSubstitutedWithinDepth ==
    [][At("stabs_type_to_ast", "entry") =>
           ((ret' = ReferenceResult) <=> (Top.depth <= 200 /\ NameSubstitutionApplies))]_vars

\* A root enum named Foo, given at depth 1 without substitute_type_name, has
\* been replaced by its name.
RootSubstitutedWitness ==
    /\ status = "done"
    /\ input.wrappers = <<>>
    /\ input.leaf = "ENUM"
    /\ input.root_name = Some(STR_Foo)
    /\ input.root_is_root
    /\ input.depth = 1
    /\ ~input.substitute_type_name
    /\ ret.ok
    /\ ret.value.descriptor = "TYPE_NAME"
    /\ ret.value.source = "REFERENCE"
    /\ ret.value.unresolved_stabs.type_name = Some(STR_Foo)
    /\ ret.value.unresolved_stabs.stabs_type_number_type = RootType.type_number.type

\* The same enum given at depth 0 has been expanded.
TopLevelExpandedWitness ==
    /\ status = "done"
    /\ input.wrappers = <<>>
    /\ input.leaf = "ENUM"
    /\ input.root_name = Some(STR_Foo)
    /\ input.root_is_root
    /\ input.depth = 0
    /\ ~input.substitute_type_name
    /\ ret.ok
    /\ ret.value.descriptor = "ENUM"

\* A type named void has been expanded although substitute_type_name is set.
VoidExpandedWitness ==
    /\ status = "done"
    /\ input.wrappers = <<>>
    /\ input.leaf = "RANGE_SIGNED"
    /\ input.root_name = Some(STR_void)
    /\ input.substitute_type_name
    /\ ret.ok
    /\ ret.value.descriptor = "BUILTIN"

\* The conditions under which the type of the innermost call is the struct
\* that encloses it.
ThisSubstitutionApplies ==
    /\ ~NameSubstitutionApplies
    /\ Top.force_substitute
    /\ ~TopType.anonymous
    /\ Top.enclosing_struct # 0
    /\ ~stabs_types[Top.enclosing_struct].anonymous
    /\ TopType.type_number = stabs_types[Top.enclosing_struct].type_number

\* The TypeName of source THIS, without a name, that carries the number of
\* the type of the innermost call.
ThisResult ==
    Success(TypeName("THIS", UnresolvedStabs(NullOpt, None, TopType.type_number)))

\* The claim as it was made: the first step of a call returns the TypeName
\* of source THIS whenever the name of the type does not stand for it,
\* force_substitute is set and the type has the number of the enclosing
\* struct, neither being anonymous.
ThisSubstituted ==
    [][(At("stabs_type_to_ast", "entry") /\ ThisSubstitutionApplies) =>
           ret' = ThisResult]_vars

RECURSIVE ContainsStruct(_)
ContainsStruct(node) ==
    \/ node.descriptor = "STRUCT_OR_UNION"
    \/ \E i \in 1..Len(Children(node)) : ContainsStruct(Children(node)[i])

\* No member function of the struct that refers back to it holds a struct.
StructNotExpandedAgain ==
    (StructLowered /\ input.leaf = "BACK") =>
        \A k \in 1..Len(ret.value.member_functions) :
            ~ContainsStruct(ret.value.member_functions[k])

\* C19 (amended): the first step of a call given a depth of 200 or less
\* returns the TypeName of source THIS, without a name and with the number
\* of the type, whenever the name of the type does not stand for it,
\* force_substitute is set and the type has the number of the enclosing
\* struct, neither being anonymous; and no member function of a struct
\* that refers back to the struct holds the struct again.
ThisSubstitutedWithinDepth ==
    [][/\ (At("stabs_type_to_ast", "entry") /\ ThisSubstitutionApplies /\ Top.depth <= 200) =>
              ret' = ThisResult
       /\ StructNotExpandedAgain']_vars

\* The struct without a name whose method takes the struct as a parameter
\* has been lowered with a TypeName of source THIS for that parameter.
ThisParameterWitness ==
    /\ StructLowered
    /\ input.leaf = "BACK"
    /\ input.wrappers = <<"STRUCT_METHOD", "METHOD_PARAMETER">>
    /\ ~input.root_name.has_value
    /\ input.depth = 0
    /\ Len(ret.value.member_functions) = 1
    /\ ret.value.member_functions[1].descriptor = "FUNCTION"
    /\ ret.value.member_functions[1].parameters.value[2].descriptor = "TYPE_NAME"
    /\ ret.value.member_functions[1].parameters.value[2].source = "THIS"
    /\ ~ret.value.member_functions[1].parameters.value[2].unresolved_stabs.type_name.has_value
    /\ ret.value.member_functions[1].parameters.value[2].unresolved_stabs.stabs_type_number_type
           = RootType.type_number.type

\* The same struct lowered at depth 199: the parameter, reached at depth
\* 201, is an Error node.
ThisRefusedWitness ==
    /\ StructLowered
    /\ input.leaf = "BACK"
    /\ input.wrappers = <<"STRUCT_METHOD", "METHOD_PARAMETER">>
    /\ ~input.root_name.has_value
    /\ input.depth = 199
    /\ ret.value.member_functions[1].parameters.value[2].descriptor = "ERROR"

\* The position the index holds for the number of the type of the innermost
\* call, 0 when it holds none.
IndexedType ==
    LET hits == {p \in 1..Len(stabs_types) :
                    /\ ~stabs_types[p].anonymous
                    /\ stabs_types[p].type_number = TopType.type_number
                    /\ stabs_types[p].type_number = StabsTypeNumber(p)}
    IN  IF hits = {} THEN 0 ELSE CHOOSE p \in hits : TRUE

\* What the claim says of a call whose type has no body: the failure or the
\* Error node of the lookup on a miss, the call that lowers the indexed type
\* on a hit.
LookupStep ==
    IF IndexedType = 0
    THEN ret' = (IF STRICT_PARSING \in parser_flags
                 THEN Failure(LookupMessage)
                 ELSE Success(ErrorNode(LookupMessage)))
    ELSE /\ Len(stack') = Len(stack) + 1
         /\ stack'[Len(stack')] =
                Frame("stabs_type_to_ast", IndexedType, Top.enclosing_struct, Top.depth + 1,
                      Top.substitute_type_name, Top.force_substitute)

\* The claim as it was made: every call whose type has no body looks the
\* type up.
BodylessTypesLookedUp ==
    [][(At("stabs_type_to_ast", "entry") /\ ~TopType.has_body) => LookupStep]_vars

\* C20 (amended): a call given a depth of 200 or less whose type has no body
\* and is replaced neither by its name nor as the enclosing struct fails,
\* strict or not, when the type is anonymous; otherwise it looks the number
\* of the type up in the index: on a miss it fails when STRICT_PARSING is
\* set and returns an Error node with the message when it is clear, on a
\* hit it lowers the indexed type with depth + 1 and the same enclosing
\* struct, substitute_type_name and force_substitute.
BodylessTypesLookedUpUnlessAnonymous ==
    [][(/\ At("stabs_type_to_ast", "entry")
        /\ ~TopType.has_body
        /\ Top.depth <= 200
        /\ ~NameSubstitutionApplies
        /\ ~ThisSubstitutionApplies) =>
           IF TopType.anonymous
           THEN ret' = Failure("Cannot lookup type (type is anonymous).")
           ELSE LookupStep]_vars

\* A call made for a type without a body has found it in the index and has
\* called the lowering of the indexed type one level deeper with its flags.
LookupHitWitness ==
    /\ status = "running"
    /\ Len(stack) >= 2
    /\ stack[Len(stack) - 1].pc = "lookup"
    /\ ~stabs_types[stack[Len(stack) - 1].type].has_body
    /\ Top.pc = "entry"
    /\ stabs_types[Top.type].has_body
    /\ Top.depth = stack[Len(stack) - 1].depth + 1
    /\ Top.enclosing_struct # 0
    /\ Top.enclosing_struct = stack[Len(stack) - 1].enclosing_struct
    /\ Top.force_substitute

\* The type the index does not hold has become an Error node.
LookupMissWitness ==
    /\ status = "done"
    /\ input.wrappers = <<>>
    /\ input.leaf = "MISSING"
    /\ input.depth = 0
    /\ STRICT_PARSING \notin parser_flags
    /\ ret = Success(ErrorNode(LookupMessage))

\* The anonymous type without a body has made the lenient lowering fail.
AnonymousLookupWitness ==
    /\ status = "done"
    /\ input.wrappers = <<>>
    /\ input.leaf = "ANONYMOUS"
    /\ input.depth = 0
    /\ STRICT_PARSING \notin parser_flags
    /\ ~ret.ok

(***************************************************************************)
(* C21: the TYPE_REFERENCE case.                                           *)
(***************************************************************************)
\* The type the TYPE_REFERENCE of the innermost call refers to.
ReferencedType == stabs_types[TopType.type]

\* The innermost call has called the lowering of the referenced type with
\* its own enclosing struct and flags, one level deeper.
ReferencedTypeLowered ==
    /\ Len(stack') = Len(stack) + 1
    /\ stack'[Len(stack')] =
           Frame("stabs_type_to_ast", TopType.type, Top.enclosing_struct, Top.depth + 1,
                 Top.substitute_type_name, Top.force_substitute)
    /\ stack'[Len(stack)].pc = "type_reference"

VoidReferenceWitness ==
    /\ status = "done"
    /\ input.wrappers = <<>>
    /\ input.leaf = "VOID"
    /\ ret = Success(BuiltIn("VOID"))

\* An anonymous reference has lowered the type it refers to.
AnonymousReferenceWitness ==
    /\ status = "done"
    /\ input.wrappers = <<"ANONYMOUS_REFERENCE">>
    /\ input.leaf = "ENUM"
    /\ ret.ok
    /\ ret.value.descriptor = "ENUM"
(***************************************************************************)
(* C22: the base classes of a struct or union.                             *)
(***************************************************************************)
\* The innermost call, at the loop over the base classes, has a base class
\* left to lower.
AtBaseClass ==
    /\ At("stabs_type_to_ast", "base_classes")
    /\ Top.i <= Len(TopType.base_classes)

\* The innermost call has called the lowering of its next base class one
\* level deeper, with itself as enclosing struct and the two flags given.
BaseClassCalled(substitute_type_name, force_substitute) ==
    /\ Len(stack') = Len(stack) + 1
    /\ stack'[Len(stack')] =
           Frame("stabs_type_to_ast", TopType.base_classes[Top.i].type, Top.type,
                 Top.depth + 1, substitute_type_name, force_substitute)

\* The node the lowering of the base class returned has been added to the
\* base classes of the struct with is_base_class, the offset and the access
\* specifier of the base class, and is otherwise as it was returned.
BaseClassAdded ==
    LET base == TopType.base_classes[Top.i]
        added == stack'[Len(stack)].node.base_classes
    IN  /\ Len(stack') = Len(stack)
        /\ Len(added) = Top.i
        /\ SubSeq(added, 1, Top.i - 1) = Top.node.base_classes
        /\ added[Top.i] =
               [ret.value EXCEPT
                   !.is_base_class = TRUE,
                   !.offset_bytes = base.offset,
                   !.access_specifier =
                       stabs_field_visibility_to_access_specifier(base.visibility)]

\* The claim as it was made: every base class is lowered with
\* substitute_type_name and force_substitute both true.
BaseClassesForceSubstituted ==
    [][/\ AtBaseClass => BaseClassCalled(TRUE, TRUE)
       /\ (Returned("stabs_type_to_ast", "base_class") /\ ret.ok) => BaseClassAdded]_vars

\* C22 (amended): every base class of a STRUCT or UNION is lowered with the
\* struct as enclosing struct, with substitute_type_name = true whatever
\* the struct was lowered with, and with the force_substitute the struct
\* was lowered with; the node that lowering returns gets is_base_class =
\* true, offset_bytes = base.offset and the access specifier mapped from
\* base.visibility.
BaseClassesSubstituted ==
    [][/\ AtBaseClass => BaseClassCalled(TRUE, Top.force_substitute)
       /\ (Returned("stabs_type_to_ast", "base_class") /\ ret.ok) => BaseClassAdded]_vars

\* A struct lowered with both flags clear has lowered its second base
\* class, a protected one at offset 4, with substitute_type_name set and
\* force_substitute clear, and holds the two nodes.
BaseClassWitness ==
    /\ status = "running"
    /\ Len(stack) = 1
    /\ Top.pc = "base_classes"
    /\ ~Top.substitute_type_name
    /\ ~Top.force_substitute
    /\ TopType.descriptor = "STRUCT"
    /\ Len(TopType.base_classes) = 2
    /\ Len(Top.node.base_classes) = 2
    /\ Top.node.base_classes[1].descriptor = "TYPE_NAME"
    /\ Top.node.base_classes[2].is_base_class
    /\ Top.node.base_classes[2].offset_bytes = 4
    /\ Top.node.base_classes[2].access_specifier = "PROTECTED"
(***************************************************************************)
(* C23: the recovery of the base path.                                     *)
(***************************************************************************)
\* The local symbol the symbol of index j, counted from 0, of the file was
\* read from.
EntryOf(fd, j) == image.local_symbols[fd.header.isym_base + j + 1]

\* The symbol of index k of the file matches: it is a label whose iss is
\* the offset of the path of the file, and so is a label the one before it.
BasePathMatch(fd, k) ==
    /\ k >= 2
    /\ EntryOf(fd, k).iss = U32(fd.header.file_path_string_offset)
    /\ EntryOf(fd, k).st = "LABEL"
    /\ EntryOf(fd, k - 1).st = "LABEL"

BasePathMatches(fd) == {k \in 0..(Len(fd.symbols) - 1) : BasePathMatch(fd, k)}

\* The base path the symbols read so far give the file: the string of the
\* symbol before the first match, empty when no symbol matches.
BasePathOfFirstMatch(fd) ==
    IF BasePathMatches(fd) = {} THEN <<>>
    ELSE LET k == CHOOSE m \in BasePathMatches(fd) : \A n \in BasePathMatches(fd) : m <= n
         IN  fd.symbols[k].string

\* C23: while the symbols of a file are read, and when the file is done,
\* base_path is the string of the symbol before the first symbol k >= 2
\* that is a label with the iss of the path of the file and follows a
\* label; it is empty as long as no symbol matches and no later match
\* changes it.
BasePathFromFirstMatch ==
    /\ sym_pc = "symbols" => sym_fd.base_path = BasePathOfFirstMatch(sym_fd)
    /\ \A f \in 1..Len(symbol_table) :
           symbol_table[f].base_path = BasePathOfFirstMatch(symbol_table[f])

\* The file whose first match gave a base path that is not empty has kept
\* it through a second match.
BasePathKeptWitness ==
    /\ sym_pc = "returned"
    /\ Len(symbol_table) = 1
    /\ Len(symbol_table[1].symbols) = 4
    /\ BasePathMatches(symbol_table[1]) = {2, 3}
    /\ symbol_table[1].base_path = <<"/">>

\* The file whose first match gave the empty string has taken its base
\* path from the second match.
BasePathReplacedWitness ==
    /\ sym_pc = "returned"
    /\ Len(symbol_table) = 1
    /\ Len(symbol_table[1].symbols) = 4
    /\ BasePathMatches(symbol_table[1]) = {2, 3}
    /\ symbol_table[1].symbols[2].string = <<>>
    /\ symbol_table[1].base_path = <<"a", ".", "c">>
(***************************************************************************)
(* C24: the loop of detect_bitfield that resolves type references.         *)
(***************************************************************************)
\* The type has a body and a descriptor the loop does not follow.
EndsChain(type) ==
    /\ stabs_types[type].has_body
    /\ stabs_types[type].descriptor \notin
           {"TYPE_REFERENCE", "CONST_QUALIFIER", "VOLATILE_QUALIFIER"}

\* The type one step of the chain leads to: the type a reference or a
\* qualifier refers to, the type the index holds for the number of a type
\* without a body, the type itself when it ends the chain, and 0 when the
\* chain breaks off: at an anonymous type without a body, at a number the
\* index does not hold or holds for the very same type.
ChainStep(type) ==
    LET t == stabs_types[type]
    IN  IF EndsChain(type) THEN type
        ELSE IF t.has_body THEN t.type
        ELSE IF t.anonymous \/ FindType(stabs_types, t.type_number) = type THEN 0
        ELSE FindType(stabs_types, t.type_number)

\* The type n steps lead to from type.
RECURSIVE ChainAfter(_, _)
ChainAfter(type, n) ==
    IF n = 0 THEN type
    ELSE LET before == ChainAfter(type, n - 1)
         IN  IF before = 0 THEN 0 ELSE ChainStep(before)

\* The chain is resolved within the 50 turns of the loop: one of them finds
\* the type that ends it.
ResolvedWithinLimit(type) ==
    LET last == ChainAfter(type, ResolveLimit - 1)
    IN  last # 0 /\ EndsChain(last)

\* The size in bits the claim gives a resolved type, 0 for "not a
\* bitfield".
ClaimedSizeBits(t) ==
    CASE t.descriptor = "RANGE" -> 8 * builtin_class_size(classify_range(t.low, t.high).value)
      [] t.descriptor = "CROSS_REFERENCE" /\ t.type = "ENUM" -> 32
      [] t.descriptor = "TYPE_ATTRIBUTE" -> t.size_bits
      [] t.descriptor = "BUILTIN" -> 8
      [] OTHER -> 0

\* The resolved type is a range that classify_range rejects.
UnclassifiedRange(type) ==
    /\ ResolvedWithinLimit(type)
    /\ LET t == stabs_types[ChainAfter(type, ResolveLimit - 1)]
       IN  t.descriptor = "RANGE" /\ ~classify_range(t.low, t.high).ok

\* The field is a bitfield by the claim: its chain is resolved and its size
\* differs from a size of the resolved type that is not 0.
ClaimedBitfield(field) ==
    /\ ResolvedWithinLimit(field.type)
    /\ LET size == ClaimedSizeBits(stabs_types[ChainAfter(field.type, ResolveLimit - 1)])
       IN  size # 0 /\ field.size_bits # size

\* C24: for every field that is not static, cycles of type references,
\* qualifiers and body-less references included, the loop of
\* detect_bitfield ends within 50 steps; the field is no bitfield when the
\* chain is not resolved within them or breaks off at a body-less type that
\* is anonymous, missing from the index or indexed to itself; a resolved
\* chain gives the size 8 * the byte size of the built-in class of a RANGE,
\* 32 for a CROSS_REFERENCE to an ENUM, size_bits for a TYPE_ATTRIBUTE, 8
\* for a BUILTIN, and no bitfield for any other descriptor.
ResolutionBounded ==
    [][(/\ At("field_to_ast", "entry")
        /\ ~TopField.is_static
        /\ ~UnclassifiedRange(TopField.type)) =>
           /\ ResolveTypeReferences(stabs_types, TopField.type, 0).steps <= ResolveLimit
           /\ Len(stack') = Len(stack) + 1
           /\ stack'[Len(stack)].pc =
                  IF ClaimedBitfield(TopField) THEN "bitfield" ELSE "normal"]_vars

\* The field of the input has been examined and is lowered as pc says.
FieldExamined(pc) ==
    /\ status = "running"
    /\ Len(stack) = 3
    /\ stack[2].fn = "field_to_ast"
    /\ stack[2].pc = pc
    /\ input.wrappers[1] = "STRUCT_FIELD"

\* Three bits whose type is a 32-bit range behind as many links as the loop
\* has turns are no bitfield: the loop has not seen the range.
ResolutionLimitWitness ==
    /\ FieldExamined("normal")
    /\ Len(input.wrappers) = ResolveLimit + 1
    /\ input.leaf = "RANGE_SIGNED"
    /\ input.size_bits = 3

\* Behind one link less they are a bitfield.
ResolvedChainWitness ==
    /\ FieldExamined("bitfield")
    /\ Len(input.wrappers) = ResolveLimit
    /\ input.leaf = "RANGE_SIGNED"
    /\ input.size_bits = 3

\* A field whose type is a cycle of a qualifier and a body-less reference
\* is no bitfield.
ResolutionCycleWitness ==
    /\ FieldExamined("normal")
    /\ input.leaf = "PARENT"
(***************************************************************************)
(* C25: is_operator_member_function.                                       *)
(***************************************************************************)
\* A demangler hook is wired and has given a name in place of the name of
\* the set s, one of the gcc opnames it knows.
OpnameReplaced(s) ==
    /\ demangler = "opname"
    /\ RootType.member_functions[s].name \in {<<"_", "_", "a", "s">>, <<"_", "_", "p", "l">>}

\* C25: every node of an overload carries is_operator_member_function
\* exactly when a demangler hook is wired and cplus_demangle_opname has
\* replaced the name of its set.
OperatorFlagFollowsDemangler ==
    MemberFunctionsLowered =>
        \A s \in 1..Len(RootType.member_functions) :
            \A o \in 1..Len(RootType.member_functions[s].overloads) :
                ret.value.member_functions[
                    OverloadsBefore(RootType.member_functions, s) + o
                ].is_operator_member_function = OpnameReplaced(s)

\* The set __as of a struct lowered with the hook wired has given a
\* function named operator= that is no operator member function.
OperatorFlagClearWitness ==
    /\ MemberFunctionsLowered
    /\ OpnameReplaced(1)
    /\ ret.value.member_functions[1].name = STR_operator_assign
    /\ ~ret.value.member_functions[1].is_operator_member_function
(***************************************************************************)
(* C26: the prefix between the symbols print_types joins.                  *)
(***************************************************************************)
\* print_types is at a NIL symbol of class 0 that ends a joined symbol: an
\* empty string, or a string that does not end with a backslash.
AtClosingSymbol ==
    /\ AtSymbol
    /\ IsNilSymbol(TypesSym)
    /\ TypesSym.string = <<>> \/ ~EndsWithBackslash(TypesSym.string)

\* C26: the step that ends a joined symbol, be it parsed, ignored for its
\* "$" or an empty string, leaves the prefix empty, so that the next symbol
\* starts with no text of an earlier one; and the text that is parsed is
\* the prefix joined so far with the string of the symbol.
PrefixEmptyAfterSymbol ==
    [][AtClosingSymbol =>
           /\ prefix' = <<>>
           /\ parsed' \in {parsed, Append(parsed, prefix \o TypesSym.string)}]_vars

\* The joined symbol "$a" has been ignored and its prefix "$" is still
\* there at the next symbol.
PrefixKeptWitness ==
    /\ types_pc = "symbol"
    /\ Len(types_files) = 1
    /\ Len(types_files[1]) = 3
    /\ [j \in 1..3 |-> types_files[1][j].string] = <<<<"$", "\\">>, <<"a">>, <<"a">>>>
    /\ \A j \in 1..3 : types_files[1][j].storage_class = 0
    /\ types_j = 3
    /\ prefix = <<"$">>
====
